---- MODULE Spec2Model ----
(***************************************************************************)
(* The moderation bot of src/main.py as a state machine.                   *)
(*                                                                         *)
(* State: the module-level dictionaries and flags of main.py, the wall     *)
(* clock, the update handled last and the outbound calls its handler made. *)
(* One action per handler registered in main(); every handler runs to      *)
(* completion before the next update is dispatched.                        *)
(*                                                                         *)
(* Text (command arguments, message text) is a sequence of one-character   *)
(* strings, so that int(), str.isdigit(), str.lower() and the substring    *)
(* test are computed character by character as Python computes them.       *)
(***************************************************************************)
EXTENDS Integers, Sequences, FiniteSets, TLC

\* ------------------------------------------------------------ constants

ADMIN == "ADMIN"
MODERATOR == "MODERATOR"
USER == "USER"

BOT_OWNER_ID == 123456789

MAX_MESSAGES_PER_WINDOW == 5
RATE_LIMIT_WINDOW_SECONDS == 10
SPAM_MUTE_DURATION_SECONDS == 300
REPORT_THRESHOLD_MUTE == 3
REPORT_THRESHOLD_KICK == 5
AUTO_MUTE_DURATION_ON_REPORTS == <<"2", "h">>

forbidden_keywords ==
    << <<"k","e","y","w","o","r","d","1">>,
       <<"s","p","a","m","l","i","n","k",".","c","o","m">>,
       <<"a","n","o","t","h","e","r","_","b","a","d","_","w","o","r","d">> >>

\* timedelta(minutes=1), timedelta(hours=1), timedelta(days=1) in seconds
SecondsPerMinute == 60
SecondsPerHour == 3600
SecondsPerDay == 86400

\* ------------------------------------------------------------ bounds

\* the clock advances at most MaxTicks times
MaxTicks == 2
\* a rate-limit window is not grown beyond MaxWindow timestamps, nor the
\* recent history of a user beyond one message more
MaxWindow == 6
\* a report log is not grown beyond MaxReports records
MaxReports == 5

\* ------------------------------------------------------------ dictionaries

\* A Python dict is a function whose domain is the set of its keys.
EmptyDict == [k \in {} |-> 0]
Put(d, k, v) == [x \in (DOMAIN d) \cup {k} |-> IF x = k THEN v ELSE d[x]]
Del(d, k) == [x \in (DOMAIN d) \ {k} |-> d[x]]
\* d.get(k, default)
Get(d, k, default) == IF k \in DOMAIN d THEN d[k] ELSE default

\* del d[chat][user]; if not d[chat]: del d[chat]
DelNested(d, chat, user) ==
    LET inner == Del(d[chat], user)
    IN  IF DOMAIN inner = {} THEN Del(d, chat) ELSE Put(d, chat, inner)

\* d[chat][user] = v written into the dictionary of every chat
PutNested_EveryChat(d, chat, user, v) ==
    [c \in (DOMAIN d) \cup {chat} |-> Put(Get(d, c, EmptyDict), user, v)]

\* if chat not in d: d[chat] = {} ; d[chat][user] = v
PutNested(d, chat, user, v) ==
    Put(d, chat, Put(Get(d, chat, EmptyDict), user, v))

\* ------------------------------------------------------------ text

Digits == <<"0", "1", "2", "3", "4", "5", "6", "7", "8", "9">>
UpperCase == <<"A","B","C","D","E","F","G","H","I","J","K","L","M",
               "N","O","P","Q","R","S","T","U","V","W","X","Y","Z">>
LowerCase == <<"a","b","c","d","e","f","g","h","i","j","k","l","m",
               "n","o","p","q","r","s","t","u","v","w","x","y","z">>

IsDigitChar(ch) == \E i \in 1..10 : Digits[i] = ch
DigitValue(ch) == (CHOOSE i \in 1..10 : Digits[i] = ch) - 1

\* a non-empty string of the decimal digits 0-9
IsDigit(s) == Len(s) > 0 /\ \A i \in 1..Len(s) : IsDigitChar(s[i])

\* stands for the character U+00B2 (superscript two), one of the characters
\* that str.isdigit() accepts and int() refuses
Superscript2 == "sup2"

\* str.isdigit(): non-empty and every character a digit, the superscript
\* digits included
isdigit(s) ==
    Len(s) > 0 /\ \A i \in 1..Len(s) : IsDigitChar(s[i]) \/ s[i] = Superscript2

\* the value of a string of digits, most significant first
RECURSIVE DigitsValue(_)
DigitsValue(s) ==
    IF Len(s) = 0 THEN 0
    ELSE 10 * DigitsValue(SubSeq(s, 1, Len(s) - 1)) + DigitValue(s[Len(s)])

\* int(s) for a command argument (no whitespace inside): an optional sign
\* and at least one digit; anything else raises ValueError (ok = FALSE).
ParseInt(s) ==
    IF IsDigit(s) THEN [ok |-> TRUE, val |-> DigitsValue(s)]
    ELSE IF Len(s) > 1 /\ s[1] = "-" /\ IsDigit(Tail(s))
         THEN [ok |-> TRUE, val |-> 0 - DigitsValue(Tail(s))]
    ELSE IF Len(s) > 1 /\ s[1] = "+" /\ IsDigit(Tail(s))
         THEN [ok |-> TRUE, val |-> DigitsValue(Tail(s))]
    ELSE [ok |-> FALSE, val |-> 0]

LowerChar(ch) ==
    IF \E i \in 1..26 : UpperCase[i] = ch
    THEN LowerCase[CHOOSE i \in 1..26 : UpperCase[i] = ch]
    ELSE ch

\* line 349 without the calls of lower()
Lower_Unchanged(s) == s

\* str.lower()
Lower(s) == [i \in 1..Len(s) |-> LowerChar(s[i])]

\* sub in s
Contains(s, sub) ==
    \E i \in 0..(Len(s) - Len(sub)) : SubSeq(s, i + 1, i + Len(sub)) = sub

\* any(keyword.lower() in text.lower() for keyword in forbidden_keywords)
HasForbiddenKeyword(text) ==
    \E k \in 1..Len(forbidden_keywords) :
        Contains(Lower(text), Lower(forbidden_keywords[k]))

\* ------------------------------------------------------------ durations

NoDuration == [some |-> FALSE, seconds |-> 0, raised |-> FALSE]
Duration(n) == [some |-> TRUE, seconds |-> n, raised |-> FALSE]
\* int(value_str) raised ValueError (line 160)
DurationValueError == [some |-> FALSE, seconds |-> 0, raised |-> TRUE]

parse_duration(duration_str) ==
    IF Len(duration_str) < 2 THEN NoDuration
    ELSE LET value_str == SubSeq(duration_str, 1, Len(duration_str) - 1)
             unit == LowerChar(duration_str[Len(duration_str)])
         IN  IF ~isdigit(value_str) THEN NoDuration
             ELSE IF ~IsDigit(value_str) THEN DurationValueError
             ELSE LET value == DigitsValue(value_str)
                  IN  IF unit = "m" THEN Duration(value * SecondsPerMinute)
                      ELSE IF unit = "h" THEN Duration(value * SecondsPerHour)
                      ELSE IF unit = "d" THEN Duration(value * SecondsPerDay)
                      ELSE NoDuration

\* truth value of a timedelta-or-None: None and timedelta(0) are both falsy
DurationTruthy(duration) == duration.some /\ duration.seconds # 0

\* ------------------------------------------------------------ state

VARIABLES
    user_roles,                      \* {chat_id: {user_id: role}}
    muted_users,                     \* {chat_id: {user_id: mute_end_time}}
    message_timestamps,              \* {chat_id: {user_id: [timestamp, ...]}}
    user_reports,                    \* {chat_id: {user_id: [report, ...]}}
    spam_protection_enabled,
    enable_auto_actions_on_reports,
    now,                             \* time.time()
    update,                          \* the update handled last
    sent,                            \* the outbound calls its handler made
    chat_history,                    \* {chat_id: {user_id: [entry, ...]}}: the
                                     \* user's recent text messages as the
                                     \* platform delivered them to handle_message
    tasks,                           \* {handler: task}: the report_user
                                     \* coroutines and the await each waits at
    frame                            \* karate_kido_bot.py: what the game
                                     \* bot's loop detected in the frame it
                                     \* took last, and what it decided

store == <<user_roles, muted_users, message_timestamps, user_reports,
           spam_protection_enabled, enable_auto_actions_on_reports>>
vars == <<user_roles, muted_users, message_timestamps, user_reports,
          spam_protection_enabled, enable_auto_actions_on_reports,
          now, update, sent, chat_history, tasks, frame>>

\* no user: None, and the id 0 that Python's "not target_user_id" also rejects
NoUser == 0

\* no text_mention entity in the message
NoMention == [text |-> <<>>, id |-> NoUser, username |-> <<>>]
\* a text_mention entity: the user it links, the text it covers and the
\* user's username (<<>> when the user has none: entity.user.username is None)
Mention(id, text, username) == [text |-> text, id |-> id, username |-> username]

NoUpdate ==
    [chat |-> 0, user |-> NoUser, text |-> <<>>, cmd |-> "none",
     reply |-> NoUser, ment |-> NoMention, args |-> <<>>]

\* an inbound command: sender, chat, author of the replied-to message (or
\* NoUser), the first text_mention entity (or NoMention), arguments
Command(cmd, user, chat, reply, ment, args) ==
    [chat |-> chat, user |-> user, text |-> <<>>, cmd |-> cmd,
     reply |-> reply, ment |-> ment, args |-> args]

\* an inbound text message that is not a command
TextMessage(user, chat, text) ==
    [chat |-> chat, user |-> user, text |-> text, cmd |-> "text",
     reply |-> NoUser, ment |-> NoMention, args |-> <<>>]

\* outbound calls
Reply(msg) == [n |-> 0, msg |-> msg, call |-> "reply_text", to |-> 0]
Delete == [n |-> 0, msg |-> "", call |-> "delete", to |-> 0]
Send(to, msg, n) == [n |-> n, msg |-> msg, call |-> "send_message", to |-> to]
Kick(user) == [n |-> 0, msg |-> "", call |-> "kick_chat_member", to |-> user]
\* an exception that escapes the handler (the dispatcher logs it)
Raise(exc) == [n |-> 0, msg |-> exc, call |-> "raise", to |-> 0]

\* A handler's outbound calls are numbered in the order it makes them; the
\* platform's answer to one handling is the set `failing` of the numbers of
\* the calls that raise.  A call that raised is recorded as Failed.
Failed(c) == [n |-> c.n, msg |-> c.call, call |-> "failed", to |-> c.to]
Attempt(failing, k, c) == IF k \in failing THEN Failed(c) ELSE c

\* "await update.message.reply_text(msg); return" outside any try block, as
\* the handler's first call: when it raises, the exception escapes
Answer(failing, msg) ==
    IF 1 \in failing
    THEN <<Failed(Reply(msg)), Raise("TelegramError")>>
    ELSE <<Reply(msg)>>

\* the report_user coroutines that may be suspended at the same time
Handlers == {1, 2}

\* a report_user coroutine: the await it is suspended at ("done" when it has
\* returned or raised), its local num_reports (line 554), the rest of its
\* admins_to_notify_ids (line 563), the exception it ended with, and two
\* records of its run: whether the record it appended is still in the log,
\* and whether no other coroutine has run since it appended
Task(pc, num_reports, todo, raises, own, alone) ==
    [pc |-> pc, num_reports |-> num_reports, todo |-> todo, raises |-> raises,
     own |-> own, alone |-> alone]

NoTask == Task("done", 0, <<>>, "", FALSE, FALSE)

\* karate_kido_bot.py, lines 525-549: character_info is None or a dict (a
\* sequence of no or one dict here), obstacles_info a list of dicts, decision
\* what make_decision returned or the exception it raised; before the first
\* frame there is none
NoFrame == [character_info |-> <<>>, obstacles_info |-> <<>>, decision |-> "none"]

Init ==
    /\ tasks = [h \in Handlers |-> NoTask]
    /\ frame = NoFrame
    /\ user_roles = EmptyDict
    /\ muted_users = EmptyDict
    /\ message_timestamps = EmptyDict
    /\ user_reports = EmptyDict
    /\ spam_protection_enabled = TRUE
    /\ enable_auto_actions_on_reports = TRUE
    /\ now = 0
    /\ update = NoUpdate
    /\ sent = <<>>
    /\ chat_history = EmptyDict

\* ------------------------------------------------------------ roles

\* line 46 looking the user up in every chat
get_user_role_AnyChat(chat_id, user_id) ==
    IF \E c \in DOMAIN user_roles : user_id \in DOMAIN user_roles[c]
    THEN user_roles[CHOOSE c \in DOMAIN user_roles : user_id \in DOMAIN user_roles[c]][user_id]
    ELSE USER

get_user_role(chat_id, user_id) ==
    Get(Get(user_roles, chat_id, EmptyDict), user_id, USER)

\* line 57 accepting a MODERATOR too
is_admin_OrModerator(chat_id, user_id) ==
    get_user_role(chat_id, user_id) \in {ADMIN, MODERATOR}

is_admin(chat_id, user_id) == get_user_role(chat_id, user_id) = ADMIN

\* line 54 accepting an ADMIN only
is_moderator_AdminOnly(chat_id, user_id) == get_user_role(chat_id, user_id) = ADMIN

is_moderator(chat_id, user_id) ==
    get_user_role(chat_id, user_id) \in {ADMIN, MODERATOR}

\* the entries of a history that are not older than the rate-limit window:
\* the history forgets what no trailing window can hold
Latest(h, current_time) ==
    SelectSeq(h, LAMBDA e : current_time - e.time <= RATE_LIMIT_WINDOW_SECONDS)

\* the platform's history once it has delivered upd: a text message is
\* entered with the time of its handling (line 308) and with whether, at
\* that time, spam protection was enabled and its sender's role was USER
Delivered(upd) ==
    IF upd.cmd = "text" /\ Len(upd.text) > 0
    THEN PutNested(chat_history, upd.chat, upd.user,
                   Latest(Append(Get(Get(chat_history, upd.chat, EmptyDict),
                                     upd.user, <<>>),
                                 [time |-> now,
                                  guarded |-> spam_protection_enabled
                                              /\ get_user_role(upd.chat, upd.user) = USER]),
                          now))
    ELSE chat_history

\* the handler's outcome: the update it handled and the calls it made
Handled(upd, calls) ==
    /\ update' = upd
    /\ sent' = calls
    /\ chat_history' = Delivered(upd)
    /\ tasks' = tasks
    /\ frame' = frame
    /\ \A c \in DOMAIN chat_history' : \A u \in DOMAIN chat_history'[c] :
          Len(chat_history'[c][u]) <= MaxWindow + 1

\* lines 63-65 without the branch of lines 66-70
start_FirstTimeOnly(upd) ==
    LET user_id == upd.user
        chat_id == upd.chat
        roles1 ==
            IF user_id = BOT_OWNER_ID /\ chat_id \notin DOMAIN user_roles
            THEN Put(user_roles, chat_id, Put(EmptyDict, BOT_OWNER_ID, ADMIN))
            ELSE user_roles
        role == Get(Get(roles1, chat_id, EmptyDict), user_id, USER)
    IN  /\ user_roles' = roles1
        /\ Handled(upd, <<Reply("Hello! Your role is: " \o role)>>)
        /\ UNCHANGED <<muted_users, message_timestamps, user_reports,
                       spam_protection_enabled, enable_auto_actions_on_reports,
                       now>>

start(upd) ==
    LET user_id == upd.user
        chat_id == upd.chat
        roles1 ==
            IF user_id = BOT_OWNER_ID /\ chat_id \notin DOMAIN user_roles
            THEN Put(user_roles, chat_id, Put(EmptyDict, BOT_OWNER_ID, ADMIN))
            ELSE IF user_id = BOT_OWNER_ID
                    /\ (BOT_OWNER_ID \notin DOMAIN user_roles[chat_id]
                        \/ user_roles[chat_id][BOT_OWNER_ID] # ADMIN)
            THEN PutNested(user_roles, chat_id, BOT_OWNER_ID, ADMIN)
            ELSE user_roles
        role == Get(Get(roles1, chat_id, EmptyDict), user_id, USER)
    IN  /\ user_roles' = roles1
        /\ Handled(upd, <<Reply("Hello! Your role is: " \o role)>>)
        /\ UNCHANGED <<muted_users, message_timestamps, user_reports,
                       spam_protection_enabled, enable_auto_actions_on_reports,
                       now>>

\* lines 82-88 without the branch of lines 86-88
SetRoleRejection_NoDemotionCheck(chat_id, setter_id, role_to_set) ==
    IF ~(Get(Get(user_roles, chat_id, EmptyDict), setter_id, USER) = ADMIN)
       /\ role_to_set \in {ADMIN, MODERATOR}
       /\ ~(setter_id = BOT_OWNER_ID /\ role_to_set = ADMIN)
    THEN "You are not authorized to set this role."
    ELSE ""

\* the rejection of lines 82-88, or "" when the setter may set the role
SetRoleRejection(chat_id, setter_id, role_to_set) ==
    IF ~is_admin(chat_id, setter_id) /\ role_to_set \in {ADMIN, MODERATOR}
    THEN IF ~(setter_id = BOT_OWNER_ID /\ role_to_set = ADMIN)
         THEN "You are not authorized to set this role."
         ELSE ""
    ELSE IF ~is_admin(chat_id, setter_id) /\ role_to_set = USER
    THEN "You are not authorized to remove permissions."
    ELSE ""

\* username_to_set: args[0] without one leading "@"
StripAt(s) == IF Len(s) > 0 /\ s[1] = "@" THEN Tail(s) ELSE s

\* target resolution of set_role_command: [err, id]
SetRoleTarget(upd) ==
    IF Len(upd.args) = 0
    THEN [id |-> NoUser, err |-> "Usage: /<command> @username"]
    ELSE LET username_to_set == StripAt(upd.args[1])
             t1 == IF upd.reply # NoUser THEN upd.reply ELSE upd.ment.id
             p == ParseInt(username_to_set)
         IN  IF t1 = NoUser /\ Len(username_to_set) > 0 /\ ~p.ok
             THEN [id |-> NoUser, err |-> "Could not find user"]
             ELSE LET t2 == IF t1 = NoUser /\ Len(username_to_set) > 0
                            THEN p.val ELSE t1
                  IN  IF t2 = NoUser
                      THEN [id |-> NoUser,
                            err |-> "Please reply to a user's message or mention them"]
                      ELSE [id |-> t2, err |-> ""]

\* line 142 without the test
OwnerRoleProtected_Off(target_user_id, setter_id) == FALSE

\* line 142 testing the setter alone
OwnerRoleProtected_SetterOnly(target_user_id, setter_id) ==
    target_user_id # BOT_OWNER_ID /\ setter_id # BOT_OWNER_ID

\* line 142: the owner's role is changed by the owner only
OwnerRoleProtected(target_user_id, setter_id) ==
    target_user_id = BOT_OWNER_ID /\ setter_id # BOT_OWNER_ID

set_role_command(upd, role_to_set) ==
    LET setter_id == upd.user
        chat_id == upd.chat
        rejection == SetRoleRejection(chat_id, setter_id, role_to_set)
        target == SetRoleTarget(upd)
        roles1 == IF chat_id \notin DOMAIN user_roles
                  THEN Put(user_roles, chat_id, EmptyDict)
                  ELSE user_roles
    IN  /\ IF rejection # ""
           THEN /\ Handled(upd, <<Reply(rejection)>>)
                /\ UNCHANGED user_roles
           ELSE IF target.err # ""
           THEN /\ Handled(upd, <<Reply(target.err)>>)
                /\ UNCHANGED user_roles
           ELSE IF OwnerRoleProtected(target.id, setter_id)
           THEN /\ Handled(upd, <<Reply("Cannot change the role of the bot owner.")>>)
                /\ user_roles' = roles1
           ELSE /\ Handled(upd, <<Reply("role set to " \o role_to_set)>>)
                /\ user_roles' = PutNested(roles1, chat_id, target.id, role_to_set)
        /\ UNCHANGED <<muted_users, message_timestamps, user_reports,
                       spam_protection_enabled, enable_auto_actions_on_reports,
                       now>>

\* line 452: who may use /setadmin at all
SetAdminAllowed(chat_id, setter_id) ==
    ~(setter_id # BOT_OWNER_ID /\ ~is_admin(chat_id, setter_id))

set_admin(upd) ==
    IF ~SetAdminAllowed(upd.chat, upd.user)
    THEN /\ Handled(upd, <<Reply("Only the bot owner or an Admin can set other admins.")>>)
         /\ UNCHANGED <<store, now>>
    ELSE set_role_command(upd, ADMIN)

set_moderator(upd) == set_role_command(upd, MODERATOR)

remove_permission(upd) == set_role_command(upd, USER)

\* ------------------------------------------------------------ mute / unmute

\* target resolution shared, line for line, by mute_user (186-217),
\* unmute_user (260-291) and kick_user (393-423): the author of the
\* replied-to message, else the first text_mention entity, else int(args[0]).
\* err is "ValueError" when int() raises, "none" when nothing resolves.
ArgTarget(upd) ==
    LET target_username_arg == upd.args[1]
        t1 == IF upd.reply # NoUser THEN upd.reply
              ELSE IF Len(target_username_arg) > 0 THEN upd.ment.id
              ELSE NoUser
        tryInt == upd.reply = NoUser /\ Len(target_username_arg) > 0 /\ t1 = NoUser
        p == ParseInt(target_username_arg)
    IN  IF tryInt /\ ~p.ok THEN [id |-> NoUser, err |-> "ValueError"]
        ELSE LET t2 == IF tryInt THEN p.val ELSE t1
             IN  IF t2 = NoUser THEN [id |-> NoUser, err |-> "none"]
                 ELSE [id |-> t2, err |-> ""]

\* lines 219-226 without the branch of lines 224-226
MuteTargetRejection_NoModeratorCheck(chat_id, muter_id, target_user_id) ==
    IF Get(Get(user_roles, chat_id, EmptyDict), target_user_id, USER) = ADMIN
       /\ muter_id # BOT_OWNER_ID
    THEN "Admins cannot be muted by non-owner Admins or Moderators."
    ELSE ""

\* lines 219-226: the rejection for this target, or "" when it may be muted
MuteTargetRejection(chat_id, muter_id, target_user_id) ==
    LET target_role == get_user_role(chat_id, target_user_id)
    IN  IF target_role = ADMIN
        THEN IF muter_id # BOT_OWNER_ID
             THEN "Admins cannot be muted by non-owner Admins or Moderators."
             ELSE ""
        ELSE IF target_role = MODERATOR /\ ~is_admin(chat_id, muter_id)
        THEN "Moderators cannot mute other Moderators."
        ELSE ""

\* line 175
MuteAllowed(chat_id, muter_id) == is_moderator(chat_id, muter_id)

\* line 230 without the test
DurationRejected_Never(duration) == FALSE

\* line 230: "if not duration"
DurationRejected(duration) == ~DurationTruthy(duration)

\* line 234
MuteEndTime(current_time, duration) == current_time + duration.seconds

mute_user(upd) ==
    LET muter_id == upd.user
        chat_id == upd.chat
        target == ArgTarget(upd)
        rejection == MuteTargetRejection(chat_id, muter_id, target.id)
        duration == parse_duration(upd.args[2])
    IN  /\ IF ~MuteAllowed(chat_id, muter_id)
           THEN /\ Handled(upd, <<Reply("You are not authorized to mute users.")>>)
                /\ UNCHANGED muted_users
           ELSE IF Len(upd.args) < 2
           THEN /\ Handled(upd, <<Reply("Usage: /mute <@username or user_id> <duration>")>>)
                /\ UNCHANGED muted_users
           ELSE IF target.err = "ValueError"
           THEN /\ Handled(upd, <<Reply("To mute by username, please reply")>>)
                /\ UNCHANGED muted_users
           ELSE IF target.err = "none"
           THEN /\ Handled(upd, <<Reply("Please reply to a user's message to mute")>>)
                /\ UNCHANGED muted_users
           ELSE IF rejection # ""
           THEN /\ Handled(upd, <<Reply(rejection)>>)
                /\ UNCHANGED muted_users
           ELSE IF duration.raised
           THEN /\ Handled(upd, <<Raise("ValueError")>>)
                /\ UNCHANGED muted_users
           ELSE IF DurationRejected(duration)
           THEN /\ Handled(upd, <<Reply("Invalid duration format.")>>)
                /\ UNCHANGED muted_users
           ELSE /\ Handled(upd, <<Reply("has been muted")>>)
                /\ muted_users' = PutNested(muted_users, chat_id, target.id,
                                            MuteEndTime(now, duration))
        /\ UNCHANGED <<user_roles, message_timestamps, user_reports,
                       spam_protection_enabled, enable_auto_actions_on_reports,
                       now>>

\* line 250 with a refusal of callers who hold a mute record themselves
UnmuteAllowed_NotMuted(chat_id, unmuter_id) ==
    /\ is_moderator(chat_id, unmuter_id)
    /\ ~(chat_id \in DOMAIN muted_users /\ unmuter_id \in DOMAIN muted_users[chat_id])

\* line 250
UnmuteAllowed(chat_id, unmuter_id) == is_moderator(chat_id, unmuter_id)

\* line 293
HasMuteRecord(chat_id, user_id) ==
    chat_id \in DOMAIN muted_users /\ user_id \in DOMAIN muted_users[chat_id]

\* lines 294-296 deleting the chat's whole dictionary
RemoveMuteRecord_WholeChat(chat_id, user_id) ==
    [c \in (DOMAIN muted_users) \ {chat_id} |-> muted_users[c]]

\* lines 294-296
RemoveMuteRecord(chat_id, user_id) == DelNested(muted_users, chat_id, user_id)

unmute_user(upd) ==
    LET unmuter_id == upd.user
        chat_id == upd.chat
        target == ArgTarget(upd)
    IN  /\ IF ~UnmuteAllowed(chat_id, unmuter_id)
           THEN /\ Handled(upd, <<Reply("You are not authorized to unmute users.")>>)
                /\ UNCHANGED muted_users
           ELSE IF Len(upd.args) < 1
           THEN /\ Handled(upd, <<Reply("Usage: /unmute <@username or user_id>")>>)
                /\ UNCHANGED muted_users
           ELSE IF target.err = "ValueError"
           THEN /\ Handled(upd, <<Reply("To unmute by username, please reply")>>)
                /\ UNCHANGED muted_users
           ELSE IF target.err = "none"
           THEN /\ Handled(upd, <<Reply("Please reply to a user's message to unmute")>>)
                /\ UNCHANGED muted_users
           ELSE IF HasMuteRecord(chat_id, target.id)
           THEN /\ Handled(upd, <<Reply("has been unmuted.")>>)
                /\ muted_users' = RemoveMuteRecord(chat_id, target.id)
           ELSE /\ Handled(upd, <<Reply("is not currently muted.")>>)
                /\ UNCHANGED muted_users
        /\ UNCHANGED <<user_roles, message_timestamps, user_reports,
                       spam_protection_enabled, enable_auto_actions_on_reports,
                       now>>

\* ------------------------------------------------------------ messages

\* lines 320-324 with <= for <
PrunedWindow_Inclusive(window, current_time) ==
    SelectSeq(Append(window, current_time),
              LAMBDA ts : current_time - ts <= RATE_LIMIT_WINDOW_SECONDS)

\* lines 320-324: append the current time, keep the trailing window
PrunedWindow(window, current_time) ==
    SelectSeq(Append(window, current_time),
              LAMBDA ts : current_time - ts < RATE_LIMIT_WINDOW_SECONDS)

\* line 313 without the test of the sender's role
SpamGuardApplies_AnyRole(chat_id, user_id) == spam_protection_enabled

\* line 313
SpamGuardApplies(chat_id, user_id) ==
    spam_protection_enabled /\ get_user_role(chat_id, user_id) \notin {ADMIN, MODERATOR}

\* line 362 with > for <
StillMuted_Reversed(current_time, mute_end_time) == current_time > mute_end_time

\* line 362 with <= for <
StillMuted_Inclusive(current_time, mute_end_time) == current_time <= mute_end_time

\* line 362
StillMuted(current_time, mute_end_time) == current_time < mute_end_time

\* lines 360-375, on the mute map as the spam guard left it; the delete of
\* line 365 is the handler's first call and its failure is caught
MuteCheck(upd, failing) ==
    LET user_id == upd.user
        chat_id == upd.chat
    IN  IF HasMuteRecord(chat_id, user_id)
        THEN IF StillMuted(now, muted_users[chat_id][user_id])
             THEN /\ Handled(upd, <<Attempt(failing, 1, Delete)>>)
                  /\ UNCHANGED muted_users
             ELSE /\ Handled(upd, <<>>)
                  /\ muted_users' = RemoveMuteRecord(chat_id, user_id)
        ELSE /\ Handled(upd, <<>>)
             /\ UNCHANGED muted_users

\* line 326 with >= for >
RateLimitExceeded_AtCap(count) == count >= MAX_MESSAGES_PER_WINDOW

\* line 326
RateLimitExceeded(count) == count > MAX_MESSAGES_PER_WINDOW

\* lines 350-357: delete and warning share one try block, so the warning is
\* not sent when the delete raises; either failure is caught
KeywordCalls(failing) ==
    IF 1 \in failing THEN <<Failed(Delete)>>
    ELSE <<Delete,
           Attempt(failing, 2,
                   Reply("your message was removed due to forbidden content."))>>

\* lines 326-358 with the keyword test before the rate test
SpamGuardVerdict_KeywordFirst(count, text) ==
    IF HasForbiddenKeyword(text) THEN "keyword"
    ELSE IF RateLimitExceeded(count) THEN "rate"
    ELSE "pass"

\* lines 326-358: which check of the spam guard stops the message, the rate
\* limit (326) before the keyword filter (349)
SpamGuardVerdict(count, text) ==
    IF RateLimitExceeded(count) THEN "rate"
    ELSE IF HasForbiddenKeyword(text) THEN "keyword"
    ELSE "pass"

\* lines 332-335 keeping a record that expires later
SpamMuteEnd_KeepLater(chat_id, user_id, current_time) ==
    LET mute_end_time_spam == current_time + SPAM_MUTE_DURATION_SECONDS
        old == Get(Get(muted_users, chat_id, EmptyDict), user_id, 0)
    IN  IF old > mute_end_time_spam THEN old ELSE mute_end_time_spam

\* lines 332-335: the expiry written for the sender, whatever is stored
SpamMuteEnd(chat_id, user_id, current_time) ==
    current_time + SPAM_MUTE_DURATION_SECONDS

handle_message(upd, failing) ==
    LET user_id == upd.user
        chat_id == upd.chat
        current_time == now
        window == PrunedWindow(
                      Get(Get(message_timestamps, chat_id, EmptyDict), user_id, <<>>),
                      current_time)
    IN  /\ IF Len(upd.text) = 0
           THEN /\ Handled(upd, <<>>)
                /\ UNCHANGED <<muted_users, message_timestamps>>
           ELSE IF SpamGuardApplies(chat_id, user_id)
           THEN /\ Len(window) <= MaxWindow
                /\ message_timestamps' =
                       PutNested(message_timestamps, chat_id, user_id, window)
                /\ IF SpamGuardVerdict(Len(window), upd.text) = "rate"
                   THEN /\ muted_users' =
                               PutNested(muted_users, chat_id, user_id,
                                         SpamMuteEnd(chat_id, user_id, current_time))
                        /\ Handled(upd,
                               <<Attempt(failing, 1, Delete),
                                 Attempt(failing, 2,
                                         Send(chat_id, "automatically muted for spamming", 0))>>)
                   ELSE IF SpamGuardVerdict(Len(window), upd.text) = "keyword"
                   THEN /\ UNCHANGED muted_users
                        /\ Handled(upd, KeywordCalls(failing))
                   ELSE MuteCheck(upd, failing)
           ELSE /\ UNCHANGED message_timestamps
                /\ MuteCheck(upd, failing)
        /\ UNCHANGED <<user_roles, user_reports, spam_protection_enabled,
                       enable_auto_actions_on_reports, now>>

\* ------------------------------------------------------------ kick

\* lines 425-434: the rejection for this target, or "" when it may be kicked
KickTargetRejection(chat_id, kicker_id, target_user_id) ==
    IF get_user_role(chat_id, target_user_id) = ADMIN /\ kicker_id # BOT_OWNER_ID
    THEN "Admins cannot kick other Admins unless you are the Bot Owner."
    ELSE IF target_user_id = BOT_OWNER_ID /\ kicker_id # BOT_OWNER_ID
    THEN "The bot owner cannot be kicked."
    ELSE ""

\* lines 378-446 with the kicked user's role entry removed after line 438
kick_user_DropsRole(upd) ==
    LET kicker_id == upd.user
        chat_id == upd.chat
        target == ArgTarget(upd)
        rejection == KickTargetRejection(chat_id, kicker_id, target.id)
    IN  /\ IF ~is_admin(chat_id, kicker_id)
           THEN Handled(upd, <<Reply("You are not authorized to kick users.")>>)
                /\ UNCHANGED user_roles
           ELSE IF Len(upd.args) < 1
           THEN Handled(upd, <<Reply("Usage: /kick <@username or user_id> [reason]")>>)
                /\ UNCHANGED user_roles
           ELSE IF target.err = "ValueError"
           THEN Handled(upd, <<Reply("To kick by username, please reply")>>)
                /\ UNCHANGED user_roles
           ELSE IF target.err = "none"
           THEN Handled(upd, <<Reply("Please reply, use linked @mention, or provide User ID to kick.")>>)
                /\ UNCHANGED user_roles
           ELSE IF rejection # ""
           THEN Handled(upd, <<Reply(rejection)>>)
                /\ UNCHANGED user_roles
           ELSE /\ Handled(upd, <<Kick(target.id), Reply("has been kicked.")>>)
                /\ user_roles' = Put(user_roles, chat_id, Del(user_roles[chat_id], target.id))
        /\ UNCHANGED <<muted_users, message_timestamps, user_reports,
                       spam_protection_enabled, enable_auto_actions_on_reports,
                       now>>

kick_user(upd) ==
    LET kicker_id == upd.user
        chat_id == upd.chat
        target == ArgTarget(upd)
        rejection == KickTargetRejection(chat_id, kicker_id, target.id)
    IN  /\ IF ~is_admin(chat_id, kicker_id)
           THEN Handled(upd, <<Reply("You are not authorized to kick users.")>>)
           ELSE IF Len(upd.args) < 1
           THEN Handled(upd, <<Reply("Usage: /kick <@username or user_id> [reason]")>>)
           ELSE IF target.err = "ValueError"
           THEN Handled(upd, <<Reply("To kick by username, please reply")>>)
           ELSE IF target.err = "none"
           THEN Handled(upd, <<Reply("Please reply, use linked @mention, or provide User ID to kick.")>>)
           ELSE IF rejection # ""
           THEN Handled(upd, <<Reply(rejection)>>)
           ELSE Handled(upd, <<Kick(target.id), Reply("has been kicked.")>>)
        /\ UNCHANGED <<store, now>>

\* ------------------------------------------------------------ toggles

toggle_spam_protection(upd) ==
    /\ IF ~is_admin(upd.chat, upd.user)
       THEN /\ Handled(upd, <<Reply("You are not authorized to change spam protection settings.")>>)
            /\ UNCHANGED spam_protection_enabled
       ELSE /\ spam_protection_enabled' = ~spam_protection_enabled
            /\ Handled(upd, <<Reply(IF spam_protection_enabled
                                    THEN "Spam protection is now disabled."
                                    ELSE "Spam protection is now enabled.")>>)
    /\ UNCHANGED <<user_roles, muted_users, message_timestamps, user_reports,
                   enable_auto_actions_on_reports, now>>

toggle_auto_actions(upd) ==
    /\ IF ~is_admin(upd.chat, upd.user)
       THEN /\ Handled(upd, <<Reply("You are not authorized to change auto-action settings.")>>)
            /\ UNCHANGED enable_auto_actions_on_reports
       ELSE /\ enable_auto_actions_on_reports' = ~enable_auto_actions_on_reports
            /\ Handled(upd, <<Reply(IF enable_auto_actions_on_reports
                                    THEN "Automatic actions based on reports are now disabled."
                                    ELSE "Automatic actions based on reports are now enabled.")>>)
    /\ UNCHANGED <<user_roles, muted_users, message_timestamps, user_reports,
                   spam_protection_enabled, now>>

\* ------------------------------------------------------------ reports

\* " ".join(parts)
RECURSIVE Join(_)
Join(parts) ==
    IF Len(parts) = 0 THEN <<>>
    ELSE IF Len(parts) = 1 THEN parts[1]
    ELSE parts[1] \o <<" ">> \o Join(Tail(parts))

\* the elements of a finite set of integers in increasing order
RECURSIVE Sorted(_)
Sorted(S) ==
    IF S = {} THEN <<>>
    ELSE LET m == CHOOSE x \in S : \A y \in S : x <= y
         IN  <<m>> \o Sorted(S \ {m})

\* line 563: the users whose stored role in the chat is ADMIN (the order of
\* the direct messages is the dict's insertion order in the source; the
\* model sends them in increasing id order)
admins_to_notify_ids(chat_id) ==
    LET roles == Get(user_roles, chat_id, EmptyDict)
    IN  Sorted({uid \in DOMAIN roles : roles[uid] = ADMIN})

\* lines 489-520: [err, id, reason_parts]; err "TypeError" is the exception of
\* '"@" + entity.user.username' for a mentioned user without a username
ReportTarget(upd) ==
    IF upd.reply # NoUser
    THEN [id |-> upd.reply, err |-> "", reason_parts |-> upd.args]
    ELSE IF Len(upd.args) > 0
    THEN LET target_username_arg == upd.args[1]
             reason_parts == Tail(upd.args)
             m == upd.ment
             p == ParseInt(target_username_arg)
         IN  IF m # NoMention /\ m.text # target_username_arg /\ m.username = <<>>
             THEN [id |-> NoUser, err |-> "TypeError", reason_parts |-> reason_parts]
             ELSE LET t1 == IF m # NoMention
                               /\ (m.text = target_username_arg
                                   \/ <<"@">> \o m.username = target_username_arg)
                            THEN m.id ELSE NoUser
                  IN  IF t1 # NoUser
                      THEN [id |-> t1, err |-> "", reason_parts |-> reason_parts]
                      ELSE IF ~p.ok
                      THEN [id |-> NoUser, err |-> "ValueError",
                            reason_parts |-> reason_parts]
                      ELSE [id |-> p.val, err |-> "", reason_parts |-> reason_parts]
    ELSE [id |-> NoUser, err |-> "usage", reason_parts |-> <<>>]

\* lines 531-538 without the branch of lines 531-533
ReportRejection_NoSelfCheck(chat_id, reporter_id, target_user_id) ==
    IF Get(Get(user_roles, chat_id, EmptyDict), target_user_id, USER) \in {ADMIN, MODERATOR}
    THEN "You cannot report Admins or Moderators."
    ELSE ""

\* lines 531-538: the rejection for this target, or "" when it may be reported
ReportRejection(chat_id, reporter_id, target_user_id) ==
    IF target_user_id = reporter_id THEN "You cannot report yourself."
    ELSE IF get_user_role(chat_id, target_user_id) \in {ADMIN, MODERATOR}
    THEN "You cannot report Admins or Moderators."
    ELSE ""

\* user_reports[chat_id][target_user_id], [] when absent
ReportLog(chat_id, user_id) ==
    Get(Get(user_reports, chat_id, EmptyDict), user_id, <<>>)

\* line 569
KickThresholdReached(num_reports) == num_reports >= REPORT_THRESHOLD_KICK

\* line 585
MuteThresholdReached(num_reports) == num_reports >= REPORT_THRESHOLD_MUTE

\* line 568 without the test of the flag
AutoActionsApply_IgnoreFlag(reported_user_role) ==
    reported_user_role \notin {ADMIN, MODERATOR}

\* line 568; the reported user's role was checked at line 536
AutoActionsApply(reported_user_role) ==
    enable_auto_actions_on_reports /\ reported_user_role \notin {ADMIN, MODERATOR}

\* lines 564-566: one direct message per ADMIN, calls 2, 3, ... of the
\* handler; a failure is caught and the loop goes on
AdminNotifications(chat_id, failing, num_reports) ==
    [i \in 1..Len(admins_to_notify_ids(chat_id)) |->
        Attempt(failing, 1 + i,
                Send(admins_to_notify_ids(chat_id)[i], "New Report", num_reports))]

\* line 582, in the except block of lines 580-582: the failure notice is call
\* number k, and when it raises too the exception escapes
KickFailureNotice(chat_id, failing, k) ==
    IF k \in failing
    THEN <<Failed(Send(chat_id, "Attempted to auto-kick but failed.", 0)),
           Raise("TelegramError")>>
    ELSE <<Send(chat_id, "Attempted to auto-kick but failed.", 0)>>

\* lines 571-582 without the clearing of lines 576-578
AutoKick_KeepsLog(chat_id, target_user_id, failing, k, num_reports) ==
    [calls |-> <<Kick(target_user_id),
                 Send(chat_id, "automatically kicked", num_reports)>>,
     cleared |-> FALSE]

\* lines 571-582: kick (call k), announce (call k + 1), then clear the log;
\* an exception of either call skips what is left of the try block, the
\* clearing included, and the except block sends the failure notice
AutoKick(chat_id, target_user_id, failing, k, num_reports) ==
    IF k \in failing
    THEN [calls |-> <<Failed(Kick(target_user_id))>>
                    \o KickFailureNotice(chat_id, failing, k + 1),
          cleared |-> FALSE]
    ELSE IF (k + 1) \in failing
    THEN [calls |-> <<Kick(target_user_id),
                      Failed(Send(chat_id, "automatically kicked", num_reports))>>
                    \o KickFailureNotice(chat_id, failing, k + 2),
          cleared |-> FALSE]
    ELSE [calls |-> <<Kick(target_user_id),
                      Send(chat_id, "automatically kicked", num_reports)>>,
          cleared |-> TRUE]

\* a send_message outside any try block as call number k (lines 593, 597):
\* when it raises, the exception escapes
LastSend(failing, k, c) ==
    IF k \in failing THEN <<Failed(c), Raise("TelegramError")>> ELSE <<c>>

report_user(upd, failing) ==
    LET reporter_id == upd.user
        chat_id == upd.chat
        current_time == now
        target == ReportTarget(upd)
        rejection == ReportRejection(chat_id, reporter_id, target.id)
        report_data == [reporter_id |-> reporter_id,
                        reason |-> Join(target.reason_parts),
                        timestamp |-> now]
        log == Append(ReportLog(chat_id, target.id), report_data)
        num_reports == Len(log)
        appended == PutNested(user_reports, chat_id, target.id, log)
        notified == <<Reply("Your report has been submitted.")>>
                    \o AdminNotifications(chat_id, failing, num_reports)
        k == Len(notified) + 1
        kick == AutoKick(chat_id, target.id, failing, k, num_reports)
        duration_td == parse_duration(AUTO_MUTE_DURATION_ON_REPORTS)
    IN  /\ IF target.err = "TypeError"
           THEN /\ Handled(upd, <<Raise("TypeError")>>)
                /\ UNCHANGED <<user_reports, muted_users>>
           ELSE IF target.err = "ValueError"
           THEN /\ Handled(upd, Answer(failing, "Could not identify user"))
                /\ UNCHANGED <<user_reports, muted_users>>
           ELSE IF target.err = "usage"
           THEN /\ Handled(upd, Answer(failing, "Usage: /report <@username or user_id> <reason>"))
                /\ UNCHANGED <<user_reports, muted_users>>
           ELSE IF Len(target.reason_parts) = 0
           THEN /\ Handled(upd, Answer(failing, "Please provide a reason for your report."))
                /\ UNCHANGED <<user_reports, muted_users>>
           ELSE IF target.id = NoUser
           THEN /\ Handled(upd, Answer(failing, "Could not determine user to report."))
                /\ UNCHANGED <<user_reports, muted_users>>
           ELSE IF rejection # ""
           THEN /\ Handled(upd, Answer(failing, rejection))
                /\ UNCHANGED <<user_reports, muted_users>>
           ELSE /\ num_reports <= MaxReports
                /\ IF 1 \in failing
                   THEN \* line 551 raises: the record stays, nothing else runs
                        /\ Handled(upd, Answer(failing, "Your report has been submitted."))
                        /\ user_reports' = appended
                        /\ UNCHANGED muted_users
                   ELSE IF AutoActionsApply(get_user_role(chat_id, target.id))
                           /\ KickThresholdReached(num_reports)
                   THEN /\ Handled(upd, notified \o kick.calls)
                        /\ user_reports' = IF kick.cleared
                                           THEN DelNested(appended, chat_id, target.id)
                                           ELSE appended
                        /\ UNCHANGED muted_users
                   ELSE IF AutoActionsApply(get_user_role(chat_id, target.id))
                           /\ MuteThresholdReached(num_reports)
                   THEN IF DurationTruthy(duration_td)
                        THEN /\ Handled(upd, notified \o
                                    LastSend(failing, k,
                                             Send(chat_id, "automatically muted", num_reports)))
                             /\ user_reports' = appended
                             /\ muted_users' =
                                    PutNested(muted_users, chat_id, target.id,
                                              current_time + duration_td.seconds)
                        ELSE /\ Handled(upd, notified \o
                                    LastSend(failing, k,
                                             Send(chat_id, "Auto-mute duration misconfigured.", 0)))
                             /\ user_reports' = appended
                             /\ UNCHANGED muted_users
                   ELSE /\ Handled(upd, notified)
                        /\ user_reports' = appended
                        /\ UNCHANGED muted_users
        /\ UNCHANGED <<user_roles, message_timestamps, spam_protection_enabled,
                       enable_auto_actions_on_reports, now>>

\* "s.startswith('@')"
StartsWithAt(s) == Len(s) > 0 /\ s[1] = "@"

\* lines 688-717: the target of /clearreports, [err, id]; the author of the
\* replied-to message unless the argument starts with "@", else the matching
\* text_mention entity, else int(args[0])
ClearTarget(upd) ==
    LET target_username_arg == upd.args[1]
        m == upd.ment
        p == ParseInt(target_username_arg)
    IN  IF upd.reply # NoUser /\ ~StartsWithAt(target_username_arg)
        THEN [id |-> upd.reply, err |-> ""]
        ELSE IF Len(target_username_arg) = 0
        THEN [id |-> NoUser, err |-> "none"]
        ELSE IF m # NoMention /\ m.text # target_username_arg /\ m.username = <<>>
        THEN [id |-> NoUser, err |-> "TypeError"]
        ELSE IF m # NoMention
                /\ (m.text = target_username_arg
                    \/ <<"@">> \o m.username = target_username_arg)
        THEN [id |-> m.id, err |-> ""]
        ELSE IF ~p.ok THEN [id |-> NoUser, err |-> "ValueError"]
        ELSE IF p.val = NoUser THEN [id |-> NoUser, err |-> "none"]
        ELSE [id |-> p.val, err |-> ""]

\* line 720 left out
ClearedReports_Kept(chat_id, target_user_id) == user_reports

\* line 720: the list is emptied, its key stays
ClearedReports(chat_id, target_user_id) ==
    PutNested(user_reports, chat_id, target_user_id, <<>>)

clear_reports(upd) ==
    LET admin_id == upd.user
        chat_id == upd.chat
        target == ClearTarget(upd)
    IN  /\ IF ~is_admin(chat_id, admin_id)
           THEN /\ Handled(upd, <<Reply("You are not authorized to clear reports.")>>)
                /\ UNCHANGED user_reports
           ELSE IF Len(upd.args) = 0
           THEN /\ Handled(upd, <<Reply("Usage: /clearreports <@username or user_id>")>>)
                /\ UNCHANGED user_reports
           ELSE IF target.err = "TypeError"
           THEN /\ Handled(upd, <<Raise("TypeError")>>)
                /\ UNCHANGED user_reports
           ELSE IF target.err = "ValueError"
           THEN /\ Handled(upd, <<Reply("Could not parse User ID")>>)
                /\ UNCHANGED user_reports
           ELSE IF target.err = "none"
           THEN /\ Handled(upd, <<Reply("Could not identify user.")>>)
                /\ UNCHANGED user_reports
           ELSE IF Len(ReportLog(chat_id, target.id)) > 0
           THEN /\ Handled(upd, <<Reply("have been cleared.")>>)
                /\ user_reports' = ClearedReports(chat_id, target.id)
           ELSE /\ Handled(upd, <<Reply("No reports found to clear.")>>)
                /\ UNCHANGED user_reports
        /\ UNCHANGED <<user_roles, muted_users, message_timestamps,
                       spam_protection_enabled, enable_auto_actions_on_reports,
                       now>>

\* a reply_text that carries a listing: msg is its heading and entries its
\* lines, in order
ReplyList(msg, entries) ==
    [n |-> Len(entries), msg |-> msg, call |-> "reply_text", to |-> 0,
     entries |-> entries]

\* lines 612-619: one line per user of the chat whose report list is not
\* empty, with the length of the list (the lines follow the dict's insertion
\* order in the source; the model lists them in increasing id order)
ReportedUsersInfo(chat_id) ==
    LET reports == Get(user_reports, chat_id, EmptyDict)
        listed == Sorted({user_id \in DOMAIN reports : Len(reports[user_id]) > 0})
    IN  [i \in 1..Len(listed) |-> [n |-> Len(reports[listed[i]]), id |-> listed[i]]]

\* lines 599-675; the target of "/listreports <user>" is resolved by the
\* statements of clear_reports (lines 631-652 are lines 692-713); the
\* reports of one user are listed in the order of the list, each with its
\* reporter, reason and timestamp
list_reports(upd) ==
    LET admin_id == upd.user
        chat_id == upd.chat
        target == ClearTarget(upd)
        reported_users_info == ReportedUsersInfo(chat_id)
    IN  /\ IF ~is_admin(chat_id, admin_id)
           THEN Handled(upd, <<Reply("You are not authorized to list reports.")>>)
           ELSE IF Len(upd.args) = 0
           THEN IF chat_id \notin DOMAIN user_reports
                   \/ \A user_id \in DOMAIN user_reports[chat_id] :
                         Len(user_reports[chat_id][user_id]) = 0
                THEN Handled(upd, <<Reply("There are no pending reports in this chat.")>>)
                ELSE IF Len(reported_users_info) = 0
                THEN Handled(upd, <<Reply("There are no users with active reports in this chat.")>>)
                ELSE Handled(upd, <<ReplyList("Users with pending reports:",
                                              reported_users_info)>>)
           ELSE IF target.err = "TypeError"
           THEN Handled(upd, <<Raise("TypeError")>>)
           ELSE IF target.err = "ValueError"
           THEN Handled(upd, <<Reply("Could not parse User ID")>>)
           ELSE IF target.err = "none"
           THEN Handled(upd, <<Reply("Could not identify user.")>>)
           ELSE IF Len(ReportLog(chat_id, target.id)) = 0
           THEN Handled(upd, <<Reply("No reports found for")>>)
           ELSE Handled(upd, <<ReplyList("Reports for", ReportLog(chat_id, target.id))>>)
        /\ UNCHANGED <<store, now>>

\* ------------------------------------------------------------ clock

\* the wall clock advances by d seconds while no update is being handled
Tick(d) ==
    /\ now + d <= MaxTicks * d
    /\ now' = now + d
    /\ update' = NoUpdate
    /\ sent' = <<>>
    /\ UNCHANGED <<store, chat_history, tasks, frame>>

\* ------------------------------------------------------------ environment

Chats == {100, 200}
Users == {BOT_OWNER_ID, 2, 3}

\* command arguments
ArgOwner == <<"1", "2", "3", "4", "5", "6", "7", "8", "9">>
Arg2 == <<"2">>
Arg3 == <<"3">>
ArgAtBob == <<"@", "b", "o", "b">>
ArgBob == <<"B", "o", "b">>

\* a linked mention of user 2, who has no username, as the text "Bob"
MentionBob == Mention(2, ArgBob, <<>>)

\* ------------------------------------------------------------ role commands

\* Chat 100 receives every form of the role commands; chat 200 receives the
\* few that give a user a role there and not in chat 100.
RoleArgs == {<<>>, <<Arg2>>, <<Arg3>>, <<ArgOwner>>, <<ArgAtBob>>}
RoleReplies == {NoUser, 3}
RoleUpdates(cmd) ==
    {Command(cmd, u, 100, r, NoMention, a) : u \in Users, r \in RoleReplies, a \in RoleArgs}
    \cup {Command(cmd, u, 100, NoUser, MentionBob, <<ArgBob>>) : u \in Users}
    \cup {Command(cmd, u, 200, NoUser, NoMention, <<Arg2>>) : u \in {BOT_OWNER_ID, 2}}
    \cup {Command(cmd, 2, 200, NoUser, NoMention, <<ArgOwner>>)}

StartStep == \E c \in Chats, u \in Users :
    start(Command("start", u, c, NoUser, NoMention, <<>>))

SetAdminStep == \E upd \in RoleUpdates("setadmin") : set_admin(upd)

SetModeratorStep == \E upd \in RoleUpdates("setmoderator") : set_moderator(upd)

RemovePermissionStep == \E upd \in RoleUpdates("removepermission") : remove_permission(upd)

NextRoles ==
    \/ StartStep
    \/ SetAdminStep
    \/ SetModeratorStep
    \/ RemovePermissionStep

SpecRoles == Init /\ [][NextRoles]_vars

\* ------------------------------------------------------------ mute commands

Dur1m == <<"1", "m">>
Dur2m == <<"2", "m">>

\* the owner alone assigns roles here, by id, to every user (the owner included)
OwnerRoleUpdates(cmd) ==
    {Command(cmd, BOT_OWNER_ID, 100, NoUser, NoMention, <<a>>) : a \in {Arg2, Arg3, ArgOwner}}

OwnerStartStep == start(Command("start", BOT_OWNER_ID, 100, NoUser, NoMention, <<>>))

OwnerSetAdminStep == \E upd \in OwnerRoleUpdates("setadmin") : set_admin(upd)

OwnerSetModeratorStep == \E upd \in OwnerRoleUpdates("setmoderator") : set_moderator(upd)

OwnerRemovePermissionStep ==
    \E upd \in OwnerRoleUpdates("removepermission") : remove_permission(upd)

\* /mute from every user on every user by id, and from user 2 by reply, by
\* linked mention, with an unresolvable name, without a duration and with an
\* invalid one
MuteUpdates ==
    {Command("mute", u, 100, NoUser, NoMention, <<a, d>>) :
        u \in Users, a \in {Arg2, Arg3, ArgOwner}, d \in {Dur1m, Dur2m}}
    \cup {Command("mute", 2, 100, 3, NoMention, <<Arg2, Dur1m>>),
          Command("mute", 2, 100, NoUser, MentionBob, <<ArgBob, Dur1m>>),
          Command("mute", 2, 100, NoUser, NoMention, <<ArgAtBob, Dur1m>>),
          Command("mute", 2, 100, NoUser, NoMention, <<Arg3>>),
          Command("mute", 2, 100, NoUser, NoMention, <<Arg3, <<"1">> >>)}

UnmuteUpdates ==
    {Command("unmute", u, 100, NoUser, NoMention, <<a>>) :
        u \in Users, a \in {Arg2, Arg3, ArgOwner}}
    \cup {Command("unmute", 2, 100, 3, NoMention, <<Arg2>>),
          Command("unmute", 2, 100, NoUser, MentionBob, <<ArgBob>>),
          Command("unmute", 2, 100, NoUser, NoMention, <<ArgAtBob>>),
          Command("unmute", 2, 100, NoUser, NoMention, <<>>)}

MuteStep == \E upd \in MuteUpdates : mute_user(upd)

UnmuteStep == \E upd \in UnmuteUpdates : unmute_user(upd)

NextMute ==
    \/ OwnerStartStep
    \/ OwnerSetAdminStep
    \/ OwnerSetModeratorStep
    \/ OwnerRemovePermissionStep
    \/ MuteStep
    \/ UnmuteStep

SpecMute == Init /\ [][NextMute]_vars

\* ------------------------------------------------------------ durations

\* "1m" "30m" "1h" "2d" "0m" "0h" "1H" "01m" and the malformed "1z" "abc"
\* "h" "1" "1hm" "1h30m" "-1h" "1.5h" and a superscript two before "h"
DurationStrs ==
    { <<"1","m">>, <<"3","0","m">>, <<"1","h">>, <<"2","d">>,
      <<"0","m">>, <<"0","h">>, <<"1","H">>, <<"0","1","m">>,
      <<"1","z">>, <<"a","b","c">>, <<"h">>, <<"1">>, <<"1","h","m">>,
      <<"1","h","3","0","m">>, <<"-","1","h">>, <<"1",".","5","h">>,
      <<Superscript2, "h">> }

\* user 2, made ADMIN by the owner, and user 3 (never given a role) mute
\* user 3 with every duration string
DurationMuteStep == \E u \in {2, 3}, d \in DurationStrs :
    mute_user(Command("mute", u, 100, NoUser, NoMention, <<Arg3, d>>))

OwnerSetAdmin2Step ==
    set_admin(Command("setadmin", BOT_OWNER_ID, 100, NoUser, NoMention, <<Arg2>>))

MinuteTick == Tick(60)

NextDuration ==
    \/ OwnerSetAdmin2Step
    \/ DurationMuteStep
    \/ MinuteTick

SpecDuration == Init /\ [][NextDuration]_vars

\* ------------------------------------------------------------ reports and kicks

ReasonSpam == <<"s", "p", "a", "m">>

\* users 2 and 3 report the owner and user 3 reports user 2, by id; every
\* call of the handler succeeds
ReportStep == \E upd \in
        {Command("report", 2, 100, NoUser, NoMention, <<ArgOwner, ReasonSpam>>),
         Command("report", 3, 100, NoUser, NoMention, <<ArgOwner, ReasonSpam>>),
         Command("report", 3, 100, NoUser, NoMention, <<Arg2, ReasonSpam>>)} :
    report_user(upd, {})

\* users 2 and 3 kick the owner, the owner kicks user 3
KickStep == \E upd \in
        {Command("kick", 2, 100, NoUser, NoMention, <<ArgOwner>>),
         Command("kick", 3, 100, NoUser, NoMention, <<ArgOwner>>),
         Command("kick", BOT_OWNER_ID, 100, NoUser, NoMention, <<Arg3>>)} :
    kick_user(upd)

\* user 2 mutes the owner
MuteOwnerStep ==
    mute_user(Command("mute", 2, 100, NoUser, NoMention, <<ArgOwner, Dur1m>>))

ToggleAutoActionsStep == \E u \in {BOT_OWNER_ID, 3} :
    toggle_auto_actions(Command("toggleautoactions", u, 100, NoUser, NoMention, <<>>))

NextReport ==
    \/ OwnerStartStep
    \/ OwnerSetAdmin2Step
    \/ ReportStep
    \/ KickStep
    \/ MuteOwnerStep
    \/ ToggleAutoActionsStep

SpecReport == Init /\ [][NextReport]_vars

\* ------------------------------------------------------------ text messages

TextHi == <<"h", "i">>
TextKEYWORD1 == <<"b", "u", "y", " ", "K", "E", "Y", "W", "O", "R", "D", "1">>

\* user 2 sends text and every call of the handler succeeds; the owner changes
\* user 2's role, mutes user 2 for one minute and toggles spam protection
TextStep == \E t \in {TextHi, TextKEYWORD1} : handle_message(TextMessage(2, 100, t), {})

OwnerDemote2Step ==
    remove_permission(Command("removepermission", BOT_OWNER_ID, 100, NoUser, NoMention, <<Arg2>>))

OwnerMute2Step ==
    mute_user(Command("mute", BOT_OWNER_ID, 100, NoUser, NoMention, <<Arg2, Dur1m>>))

ToggleSpamStep ==
    toggle_spam_protection(Command("togglespam", BOT_OWNER_ID, 100, NoUser, NoMention, <<>>))

NextMessage ==
    \/ OwnerStartStep
    \/ OwnerSetAdmin2Step
    \/ OwnerDemote2Step
    \/ OwnerMute2Step
    \/ ToggleSpamStep
    \/ TextStep
    \/ MinuteTick

SpecMessage == Init /\ [][NextMessage]_vars

\* ------------------------------------------------------------ spam guard

\* which of the handler's calls the platform refuses: none, the first, the
\* second
TextFailings == {{}, {1}, {2}}

\* user 2 sends text that the platform may fail to delete or to answer
SpamTextStep == \E t \in {TextHi, TextKEYWORD1}, failing \in TextFailings :
    handle_message(TextMessage(2, 100, t), failing)

OwnerSetModerator2Step ==
    set_moderator(Command("setmoderator", BOT_OWNER_ID, 100, NoUser, NoMention, <<Arg2>>))

FiveSecondTick == Tick(5)

\* the owner toggles spam protection while user 2 sends text and the clock
\* advances in steps of five seconds
NextSpam ==
    \/ OwnerStartStep
    \/ ToggleSpamStep
    \/ SpamTextStep
    \/ FiveSecondTick

SpecSpam == Init /\ [][NextSpam]_vars

\* ------------------------------------------------------------ exempt senders

\* the owner makes user 2 an ADMIN or a MODERATOR, mutes user 2 for one minute
\* and toggles spam protection, while user 2 sends text and the clock advances
\* in steps of one minute
NextExempt ==
    \/ OwnerStartStep
    \/ OwnerSetAdmin2Step
    \/ OwnerSetModerator2Step
    \/ OwnerMute2Step
    \/ ToggleSpamStep
    \/ SpamTextStep
    \/ MinuteTick

SpecExempt == Init /\ [][NextExempt]_vars

\* ------------------------------------------------------------ order of the checks

\* user 2 stays a USER: the owner mutes user 2 for one minute and toggles spam
\* protection, while user 2 sends text and the clock advances in steps of one
\* minute
NextOrder ==
    \/ OwnerStartStep
    \/ OwnerMute2Step
    \/ ToggleSpamStep
    \/ SpamTextStep
    \/ MinuteTick

SpecOrder == Init /\ [][NextOrder]_vars

\* ------------------------------------------------------------ report escalation

\* which of the handler's calls the platform refuses: none, any one of the
\* first five, or two in a row (the kick or its announcement, and the failure
\* notice that follows)
ReportFailings == {{}, {1}, {2}, {3}, {4}, {5}, {2, 3}, {3, 4}, {4, 5}}

\* user 2 reports user 3 by id
EscalationReportStep == \E failing \in ReportFailings :
    report_user(Command("report", 2, 100, NoUser, NoMention, <<Arg3, ReasonSpam>>),
                failing)

OwnerMute3Step ==
    mute_user(Command("mute", BOT_OWNER_ID, 100, NoUser, NoMention, <<Arg3, Dur1m>>))

ToggleAutoActionsOwnerStep ==
    toggle_auto_actions(Command("toggleautoactions", BOT_OWNER_ID, 100, NoUser, NoMention, <<>>))

\* the owner becomes ADMIN, makes user 2 ADMIN, mutes user 3 for one minute
\* and toggles the automatic actions, while user 2 reports user 3 and the
\* clock advances
NextEscalation ==
    \/ OwnerStartStep
    \/ OwnerSetAdmin2Step
    \/ OwnerMute3Step
    \/ ToggleAutoActionsOwnerStep
    \/ EscalationReportStep
    \/ MinuteTick

SpecEscalation == Init /\ [][NextEscalation]_vars

\* ------------------------------------------------------------ rejected reports

\* user 2 reports user 2 (by id, with and without a reason, and in a reply
\* to user 2's own message) and user 3; user 3 reports user 2 in a reply
RejectReports ==
    {Command("report", 2, 100, NoUser, NoMention, <<Arg2, ReasonSpam>>),
     Command("report", 2, 100, NoUser, NoMention, <<Arg2>>),
     Command("report", 2, 100, 2, NoMention, <<ReasonSpam>>),
     Command("report", 2, 100, NoUser, NoMention, <<Arg3, ReasonSpam>>),
     Command("report", 3, 100, 2, NoMention, <<ReasonSpam>>)}

\* the platform carries out every call or refuses the first
RejectReportStep == \E upd \in RejectReports, failing \in {{}, {1}} :
    report_user(upd, failing)

\* the owner becomes ADMIN and makes user 2 ADMIN or MODERATOR, while users 2
\* and 3 file reports
NextReject ==
    \/ OwnerStartStep
    \/ OwnerSetAdmin2Step
    \/ OwnerSetModerator2Step
    \/ RejectReportStep

SpecReject == Init /\ [][NextReject]_vars

\* ------------------------------------------------------------ mute lifecycle

OwnerSetAdminOwnerStep ==
    set_admin(Command("setadmin", BOT_OWNER_ID, 100, NoUser, NoMention, <<ArgOwner>>))

OwnerUnmute3Step ==
    unmute_user(Command("unmute", BOT_OWNER_ID, 100, NoUser, NoMention, <<Arg3>>))

\* user 3 sends text and every call of the handler succeeds
Text3Step == handle_message(TextMessage(3, 100, TextHi), {})

\* user 2 reports user 3 and every call of the handler succeeds
Report3Step ==
    report_user(Command("report", 2, 100, NoUser, NoMention, <<Arg3, ReasonSpam>>), {})

OwnerKick3Step ==
    kick_user(Command("kick", BOT_OWNER_ID, 100, NoUser, NoMention, <<Arg3>>))

OwnerClearReports3Step ==
    clear_reports(Command("clearreports", BOT_OWNER_ID, 100, NoUser, NoMention, <<Arg3>>))

HourTick == Tick(SecondsPerHour)

\* every operation on or around user 3: the owner becomes ADMIN by /start or
\* by /setadmin, mutes, unmutes and kicks user 3, clears user 3's reports
\* and toggles the automatic actions; user 2 reports user 3; user 3 sends
\* text; the clock advances in steps of one hour
NextLifecycle ==
    \/ OwnerStartStep
    \/ OwnerSetAdminOwnerStep
    \/ OwnerMute3Step
    \/ OwnerUnmute3Step
    \/ Text3Step
    \/ Report3Step
    \/ OwnerKick3Step
    \/ OwnerClearReports3Step
    \/ ToggleAutoActionsOwnerStep
    \/ HourTick

SpecLifecycle == Init /\ [][NextLifecycle]_vars

\* ------------------------------------------------------------ administration

\* every user asks for the list of reported users and for the reports of
\* user 3
ListReportsStep == \E u \in Users, a \in {<<>>, <<Arg3>>} :
    list_reports(Command("listreports", u, 100, NoUser, NoMention, a))

\* every user clears the reports of user 3
ClearReports3Step == \E u \in Users :
    clear_reports(Command("clearreports", u, 100, NoUser, NoMention, <<Arg3>>))

\* every user toggles spam protection
ToggleSpamAnyStep == \E u \in Users :
    toggle_spam_protection(Command("togglespam", u, 100, NoUser, NoMention, <<>>))

\* every user toggles the automatic actions
ToggleAutoActionsAnyStep == \E u \in Users :
    toggle_auto_actions(Command("toggleautoactions", u, 100, NoUser, NoMention, <<>>))

\* every user kicks user 3
Kick3Step == \E u \in Users :
    kick_user(Command("kick", u, 100, NoUser, NoMention, <<Arg3>>))

\* the owner is ADMIN after /start, user 2 a MODERATOR once the owner says
\* so, user 3 a USER whom the owner mutes and user 2 reports; the owner and
\* users 2 and 3 use the administrative commands
NextAdmin ==
    \/ OwnerStartStep
    \/ OwnerSetModerator2Step
    \/ OwnerMute3Step
    \/ Report3Step
    \/ ListReportsStep
    \/ ClearReports3Step
    \/ ToggleSpamAnyStep
    \/ ToggleAutoActionsAnyStep
    \/ Kick3Step

SpecAdmin == Init /\ [][NextAdmin]_vars

\* ------------------------------------------------------------ rejected commands

Arg0 == <<"0">>
DurBad == <<"1", "z">>
DurWord == <<"a", "b", "c">>

\* lines 747-758: the handler of each command; every call of /report succeeds
Dispatch(upd) ==
    CASE upd.cmd = "start" -> start(upd)
      [] upd.cmd = "setadmin" -> set_admin(upd)
      [] upd.cmd = "setmoderator" -> set_moderator(upd)
      [] upd.cmd = "removepermission" -> remove_permission(upd)
      [] upd.cmd = "mute" -> mute_user(upd)
      [] upd.cmd = "unmute" -> unmute_user(upd)
      [] upd.cmd = "kick" -> kick_user(upd)
      [] upd.cmd = "togglespam" -> toggle_spam_protection(upd)
      [] upd.cmd = "report" -> report_user(upd, {})
      [] upd.cmd = "listreports" -> list_reports(upd)
      [] upd.cmd = "clearreports" -> clear_reports(upd)
      [] upd.cmd = "toggleautoactions" -> toggle_auto_actions(upd)

\* the arguments each command is tried with: none, a username nobody links
\* ("@bob"), the id 0, user 3 without the duration or the reason that must
\* follow, and for /mute two strings that are no duration ("1z", "abc")
BadArgs(cmd) ==
    CASE cmd \in {"togglespam", "toggleautoactions"} -> {<<>>}
      [] cmd = "mute" -> {<<>>, <<Arg3>>, <<ArgAtBob, Dur1m>>, <<Arg0, Dur1m>>,
                          <<Arg3, DurBad>>, <<Arg3, DurWord>>}
      [] cmd = "report" -> {<<>>, <<Arg3>>, <<ArgAtBob, ReasonSpam>>, <<Arg0, ReasonSpam>>}
      [] cmd = "listreports" -> {<<ArgAtBob>>, <<Arg0>>}
      [] OTHER -> {<<>>, <<ArgAtBob>>, <<Arg0>>}

\* every user sends every command but /start with each of these arguments,
\* and /mute, /unmute and /kick also without arguments in a reply to user 3
BadCommands ==
    {Command(cmd, u, 100, NoUser, NoMention, a) :
        <<cmd, u, a>> \in
            {t \in {"setadmin", "setmoderator", "removepermission", "mute",
                     "unmute", "kick", "togglespam", "report", "listreports",
                     "clearreports", "toggleautoactions"}
                    \X Users
                    \X {<<>>, <<Arg3>>, <<ArgAtBob>>, <<Arg0>>,
                         <<ArgAtBob, Dur1m>>, <<Arg0, Dur1m>>, <<Arg3, DurBad>>,
                         <<Arg3, DurWord>>, <<ArgAtBob, ReasonSpam>>,
                         <<Arg0, ReasonSpam>>} :
                t[3] \in BadArgs(t[1])}}
    \cup {Command(cmd, u, 100, 3, NoMention, <<>>) :
            cmd \in {"mute", "unmute", "kick"}, u \in Users}

BadCommandStep == \E upd \in BadCommands : Dispatch(upd)

\* the first report against user 3
FirstReport3Step == ReportLog(100, 3) = <<>> /\ Report3Step

\* the first text of user 3
FirstText3Step ==
    /\ Get(Get(message_timestamps, 100, EmptyDict), 3, <<>>) = <<>>
    /\ Text3Step

\* the owner is ADMIN after /start and user 2 a MODERATOR once the owner says
\* so; the owner mutes user 3, user 2 reports user 3 once and user 3 sends
\* one text,
\* so that every map holds something; then every user sends the commands
\* above
NextInput ==
    \/ OwnerStartStep
    \/ OwnerSetModerator2Step
    \/ OwnerMute3Step
    \/ FirstReport3Step
    \/ FirstText3Step
    \/ BadCommandStep

SpecInput == Init /\ [][NextInput]_vars

\* ------------------------------------------------------------ targets

ArgAl == <<"A", "l">>
ArgAtAl == <<"@", "a", "l">>

\* a linked mention of user 2, whose username is "al", as the text "Al"
MentionAl == Mention(2, ArgAl, <<"a", "l">>)

\* the ways a command names its target: in a reply to user 3 (with and
\* without an argument), by a linked mention of user 2 whose text or
\* username is the argument, by the id 3 beside a linked mention of user 2,
\* by the id 3 alone, and by a username nobody links
TargetForms ==
    {[reply |-> 3, ment |-> NoMention, args |-> <<Arg2>>],
     [reply |-> 3, ment |-> NoMention, args |-> <<>>],
     [reply |-> NoUser, ment |-> MentionBob, args |-> <<ArgBob>>],
     [reply |-> NoUser, ment |-> MentionAl, args |-> <<ArgAtAl>>],
     [reply |-> NoUser, ment |-> MentionBob, args |-> <<Arg3>>],
     [reply |-> NoUser, ment |-> MentionAl, args |-> <<Arg3>>],
     [reply |-> NoUser, ment |-> NoMention, args |-> <<Arg3>>],
     [reply |-> NoUser, ment |-> NoMention, args |-> <<ArgAtBob>>]}

\* what follows the target: the duration of /mute, the reason of /report
TargetSuffix(cmd) ==
    CASE cmd = "mute" -> <<Dur1m>>
      [] cmd = "report" -> <<ReasonSpam>>
      [] OTHER -> <<>>

\* the owner sends /mute, /unmute, /kick, /report and /removepermission in
\* each of these forms
TargetCommands ==
    {Command(cmd, BOT_OWNER_ID, 100, f.reply, f.ment, f.args \o TargetSuffix(cmd)) :
        cmd \in {"mute", "unmute", "kick", "report", "removepermission"},
        f \in TargetForms}

\* no user of the chat has more than one report
FewReports == \A u \in Users : Len(ReportLog(100, u)) < 2

TargetStep == \E upd \in TargetCommands : FewReports /\ Dispatch(upd)

\* users 2 and 3 stay USERs; the owner, ADMIN after /start, names them as
\* targets
NextTarget ==
    \/ OwnerStartStep
    \/ TargetStep

SpecTarget == Init /\ [][NextTarget]_vars

\* ------------------------------------------------------------ keyword filter

\* "keyword1", "KEYWORD1", "KeyWord1", "xkeyword1x", "Check spamlink.com",
\* "another_bad_word", and without a forbidden word "key word1", "keyword",
\* "eyword1", "hi" and a message without text
KeywordTexts ==
    { <<"k","e","y","w","o","r","d","1">>,
      <<"K","E","Y","W","O","R","D","1">>,
      <<"K","e","y","W","o","r","d","1">>,
      <<"x","k","e","y","w","o","r","d","1","x">>,
      <<"C","h","e","c","k"," ","s","p","a","m","l","i","n","k",".","c","o","m">>,
      <<"a","n","o","t","h","e","r","_","b","a","d","_","w","o","r","d">>,
      <<"k","e","y"," ","w","o","r","d","1">>,
      <<"k","e","y","w","o","r","d">>,
      <<"e","y","w","o","r","d","1">>,
      TextHi,
      <<>> }

\* user 2, a USER, sends these while spam protection is enabled
KeywordTextStep == \E t \in KeywordTexts : handle_message(TextMessage(2, 100, t), {})

NextKeyword ==
    \/ KeywordTextStep
    \/ MinuteTick

SpecKeyword == Init /\ [][NextKeyword]_vars

\* ------------------------------------------------------------ overwritten mutes

Dur1d == <<"1", "d">>

OwnerMute3DayStep ==
    mute_user(Command("mute", BOT_OWNER_ID, 100, NoUser, NoMention, <<Arg3, Dur1d>>))

\* the owner, ADMIN after /start, mutes user 3 for one day; user 3, a USER,
\* goes on sending text and user 2 reports user 3, all within the same
\* second, with spam protection and the automatic actions enabled
NextOverwrite ==
    \/ OwnerStartStep
    \/ OwnerMute3DayStep
    \/ Text3Step
    \/ Report3Step

SpecOverwrite == Init /\ [][NextOverwrite]_vars

\* ------------------------------------------------------------ two chats

\* what the owner sends in a chat: /start in either, the commands on user 3
\* in chat 200, where no automatic action mutes or kicks
OwnerCommands(c) ==
    {Command("start", BOT_OWNER_ID, c, NoUser, NoMention, <<>>)}
    \cup (IF c = 200
          THEN {Command("mute", BOT_OWNER_ID, c, NoUser, NoMention, <<Arg3, Dur1m>>)}
               \cup {Command(cmd, BOT_OWNER_ID, c, NoUser, NoMention, <<Arg3>>) :
                        cmd \in {"unmute", "kick", "clearreports", "listreports"}}
          ELSE {})

\* the owner sends a command in either chat
ChatsOwnerStep == \E c \in Chats : \E upd \in OwnerCommands(c) : Dispatch(upd)

\* user 2, whom the owner makes ADMIN in chat 100 only, sends /togglespam
\* in either chat while spam protection is enabled
ChatsToggleSpamStep == \E c \in Chats :
    /\ spam_protection_enabled
    /\ toggle_spam_protection(Command("togglespam", 2, c, NoUser, NoMention, <<>>))

\* and /toggleautoactions in either chat while the automatic actions are
\* enabled
ChatsToggleAutoActionsStep == \E c \in Chats :
    /\ enable_auto_actions_on_reports
    /\ toggle_auto_actions(Command("toggleautoactions", 2, c, NoUser, NoMention, <<>>))

\* the first text of user 3 in chat 200
ChatsText3Step ==
    /\ Get(Get(message_timestamps, 200, EmptyDict), 3, <<>>) = <<>>
    /\ handle_message(TextMessage(3, 200, TextHi), {})

\* the first report of user 3 by user 2 in chat 200
ChatsReport3Step ==
    /\ ReportLog(200, 3) = <<>>
    /\ report_user(Command("report", 2, 200, NoUser, NoMention, <<Arg3, ReasonSpam>>), {})

\* chat 100 sees every operation on user 3 up to the spam mute and the
\* automatic kick while chat 200 holds roles, a mute record, a window and
\* a report log of its own
NextChats ==
    \/ ChatsOwnerStep
    \/ OwnerSetAdmin2Step
    \/ ChatsToggleSpamStep
    \/ ChatsToggleAutoActionsStep
    \/ FirstText3Step
    \/ Report3Step
    \/ ChatsText3Step
    \/ ChatsReport3Step

SpecChats == Init /\ [][NextChats]_vars

\* ------------------------------------------------------------ promoted and kicked

\* the owner sets the role of user 3 with each of the three role commands
OwnerSetRole3Step == \E cmd \in {"setadmin", "setmoderator", "removepermission"} :
    Dispatch(Command(cmd, BOT_OWNER_ID, 100, NoUser, NoMention, <<Arg3>>))

\* the owner, ADMIN after /start, mutes, re-roles and kicks user 3, whom
\* user 2 reports and who sends text
NextPromote ==
    \/ OwnerStartStep
    \/ OwnerMute3Step
    \/ OwnerSetRole3Step
    \/ OwnerKick3Step
    \/ Report3Step
    \/ Text3Step

SpecPromote == Init /\ [][NextPromote]_vars

\* ------------------------------------------------------------ report totals

\* the owner, ADMIN after /start, toggles the automatic actions and clears
\* the reports of user 3 while user 2 reports user 3, every call succeeds
\* and the clock advances
NextTotals ==
    \/ OwnerStartStep
    \/ ToggleAutoActionsOwnerStep
    \/ OwnerClearReports3Step
    \/ Report3Step
    \/ MinuteTick

SpecTotals == Init /\ [][NextTotals]_vars

\* ------------------------------------------------------------ interleaved reports

\* The application is built without concurrent updates (line 745), so the
\* dispatcher awaits each handler before it takes the next update.  The
\* steps below are report_user cut at its awaits (lines 551, 565, 572, 574,
\* 593), as two coroutines would run if the dispatcher did not wait; sent
\* holds the call made by the step taken last.

\* the /report each coroutine handles: user 2 and the owner report user 3
ReportOf(h) ==
    Command("report", IF h = 1 THEN 2 ELSE BOT_OWNER_ID, 100, NoUser, NoMention,
            <<Arg3, ReasonSpam>>)

\* line 554 evaluated one record short
NumReportsRead_BeforeAppend(chat_id, target_user_id) ==
    Len(user_reports[chat_id][target_user_id]) - 1

\* line 554: len(user_reports[chat_id][target_user_id])
NumReportsRead(chat_id, target_user_id) ==
    Len(user_reports[chat_id][target_user_id])

\* lines 554 and 576: both keys are there
HasReportLog(chat_id, target_user_id) ==
    chat_id \in DOMAIN user_reports /\ target_user_id \in DOMAIN user_reports[chat_id]

\* coroutine h goes on as task t: every other coroutine has no longer run
\* alone since its append, and when the log was deleted its record is gone
Switched(h, t, deleted) ==
    [g \in Handlers |->
        IF g = h THEN t
        ELSE Task(tasks[g].pc, tasks[g].num_reports, tasks[g].todo, tasks[g].raises,
                  tasks[g].own /\ ~deleted, FALSE)]

\* what a step of a coroutine leaves alone
TaskFrame ==
    UNCHANGED <<user_roles, message_timestamps, spam_protection_enabled,
                enable_auto_actions_on_reports, now, chat_history, frame>>

\* lines 479-551: the checks, the append of line 549 and the confirmation
\* reply of line 551, at which the coroutine is suspended; the log may grow
\* one record beyond MaxReports, so that both coroutines can pass the kick
\* threshold
ReportBegins(h) ==
    LET upd == ReportOf(h)
        chat_id == upd.chat
        target == ReportTarget(upd)
        log == Append(ReportLog(chat_id, target.id),
                      [reporter_id |-> upd.user,
                       reason |-> Join(target.reason_parts),
                       timestamp |-> now])
    IN  /\ tasks[h].pc = "done"
        /\ ReportRejection(chat_id, upd.user, target.id) = ""
        /\ Len(log) <= MaxReports + 1
        /\ user_reports' = PutNested(user_reports, chat_id, target.id, log)
        /\ update' = upd
        /\ sent' = <<Reply("Your report has been submitted.")>>
        /\ tasks' = Switched(h, Task("reply", 0, <<>>, "", TRUE, TRUE), FALSE)
        /\ UNCHANGED muted_users
        /\ TaskFrame

\* lines 563-597 from the direct message to the next ADMIN on: the message
\* of line 565, or with no ADMIN left the threshold test and the first call
\* of the branch taken
NotifyOrDecide(h, chat_id, target_user_id, num_reports, todo) ==
    LET t == tasks[h]
        duration_td == parse_duration(AUTO_MUTE_DURATION_ON_REPORTS)
    IN  IF Len(todo) > 0
        THEN /\ sent' = <<Send(Head(todo), "New Report", num_reports)>>
             /\ tasks' = Switched(h, Task("notify", num_reports, Tail(todo), "",
                                          t.own, t.alone), FALSE)
             /\ UNCHANGED <<user_reports, muted_users>>
        ELSE IF AutoActionsApply(USER) /\ KickThresholdReached(num_reports)
        THEN /\ sent' = <<Kick(target_user_id)>>
             /\ tasks' = Switched(h, Task("kick", num_reports, <<>>, "",
                                          t.own, t.alone), FALSE)
             /\ UNCHANGED <<user_reports, muted_users>>
        ELSE IF AutoActionsApply(USER) /\ MuteThresholdReached(num_reports)
                /\ DurationTruthy(duration_td)
        THEN /\ muted_users' = PutNested(muted_users, chat_id, target_user_id,
                                         now + duration_td.seconds)
             /\ sent' = <<Send(chat_id, "automatically muted", num_reports)>>
             /\ tasks' = Switched(h, Task("mute", num_reports, <<>>, "",
                                          t.own, t.alone), FALSE)
             /\ UNCHANGED user_reports
        ELSE /\ tasks' = Switched(h, Task("done", num_reports, <<>>, "",
                                          t.own, t.alone), FALSE)
             /\ sent' = <<>>
             /\ UNCHANGED <<user_reports, muted_users>>

\* the reply of line 551 has returned: line 554 reads the log, with KeyError
\* when a key is gone, and line 563 lists the ADMINs
ResumeReply(h) ==
    LET upd == ReportOf(h)
        chat_id == upd.chat
        target_user_id == ReportTarget(upd).id
    IN  /\ tasks[h].pc = "reply"
        /\ IF ~HasReportLog(chat_id, target_user_id)
           THEN /\ sent' = <<Raise("KeyError")>>
                /\ tasks' = Switched(h, Task("done", 0, <<>>, "KeyError",
                                             tasks[h].own, tasks[h].alone), FALSE)
                /\ UNCHANGED <<user_reports, muted_users>>
           ELSE NotifyOrDecide(h, chat_id, target_user_id,
                               NumReportsRead(chat_id, target_user_id),
                               admins_to_notify_ids(chat_id))
        /\ UNCHANGED update
        /\ TaskFrame

\* a direct message of line 565 has returned
ResumeNotify(h) ==
    LET upd == ReportOf(h)
    IN  /\ tasks[h].pc = "notify"
        /\ NotifyOrDecide(h, upd.chat, ReportTarget(upd).id,
                          tasks[h].num_reports, tasks[h].todo)
        /\ UNCHANGED update
        /\ TaskFrame

\* the kick of line 572 has returned: the announcement of line 574
ResumeKick(h) ==
    /\ tasks[h].pc = "kick"
    /\ sent' = <<Send(ReportOf(h).chat, "automatically kicked",
                     tasks[h].num_reports)>>
    /\ tasks' = Switched(h, Task("announce", tasks[h].num_reports, <<>>, "",
                                 tasks[h].own, tasks[h].alone), FALSE)
    /\ UNCHANGED <<user_reports, muted_users, update>>
    /\ TaskFrame

\* the announcement has returned: lines 576-578 delete the log when both
\* keys are there, and line 583 returns
ResumeAnnounce(h) ==
    LET chat_id == ReportOf(h).chat
        target_user_id == ReportTarget(ReportOf(h)).id
        deleted == HasReportLog(chat_id, target_user_id)
    IN  /\ tasks[h].pc = "announce"
        /\ user_reports' = IF deleted
                           THEN DelNested(user_reports, chat_id, target_user_id)
                           ELSE user_reports
        /\ tasks' = Switched(h, Task("done", tasks[h].num_reports, <<>>, "",
                                     tasks[h].own /\ ~deleted, tasks[h].alone),
                             deleted)
        /\ sent' = <<>>
        /\ UNCHANGED <<muted_users, update>>
        /\ TaskFrame

\* the announcement of line 593 has returned
ResumeMute(h) ==
    /\ tasks[h].pc = "mute"
    /\ tasks' = Switched(h, Task("done", tasks[h].num_reports, <<>>, "",
                                 tasks[h].own, tasks[h].alone), FALSE)
    /\ sent' = <<>>
    /\ UNCHANGED <<user_reports, muted_users, update>>
    /\ TaskFrame

\* /start of the owner, sent while no report is being handled
IdleOwnerStartStep ==
    /\ \A h \in Handlers : tasks[h].pc = "done"
    /\ OwnerStartStep

\* two coroutines of report_user run step by step in any order
NextInterleave ==
    \/ IdleOwnerStartStep
    \/ \E h \in Handlers : ReportBegins(h)
    \/ \E h \in Handlers : ResumeReply(h)
    \/ \E h \in Handlers : ResumeNotify(h)
    \/ \E h \in Handlers : ResumeKick(h)
    \/ \E h \in Handlers : ResumeAnnounce(h)
    \/ \E h \in Handlers : ResumeMute(h)

SpecInterleave == Init /\ [][NextInterleave]_vars

\* ------------------------------------------------------------ game bot

\* karate_kido_bot.py, line 385
PROXIMITY_X_THRESHOLD == 30

\* a bounding box as detect_character (line 246) and detect_obstacles
\* (line 353) return it
Box(x, y, width, height, found) ==
    [x |-> x, y |-> y, width |-> width, height |-> height, found |-> found]

\* line 389 with the character's height in the place of char_height
ForwardScanOffset_Height(character_info) ==
    IF character_info.height > 0
    THEN [raises |-> "", twice |-> character_info.height]
    ELSE [raises |-> "", twice |-> 20]

\* line 389, FORWARD_SCAN_Y_OFFSET, as twice its value: the name char_height
\* is bound nowhere in the module, so the branch for a positive height
\* raises NameError; otherwise the offset is 10
ForwardScanOffset(character_info) ==
    IF character_info.height > 0
    THEN [raises |-> "NameError", twice |-> 0]
    ELSE [raises |-> "", twice |-> 20]

\* |a|
Abs(a) == IF a < 0 THEN -a ELSE a

\* lines 415-416, with both sides of the second comparison doubled
is_vertically_relevant(character_info, obstacle, twice_offset) ==
    /\ character_info.y < obstacle.y + obstacle.height
    /\ 2 * (character_info.y + character_info.height) + twice_offset > 2 * obstacle.y

\* lines 424-427, with both sides doubled: twice a centre is 2 x + width
is_threat(character_info, obstacle) ==
    Abs((2 * character_info.x + character_info.width)
        - (2 * obstacle.x + obstacle.width))
      < character_info.width + obstacle.width + 2 * PROXIMITY_X_THRESHOLD

\* lines 400-439: the action for the first obstacle that is a threat
RECURSIVE ScanObstacles(_, _, _)
ScanObstacles(character_info, obstacles_info, twice_offset) ==
    IF obstacles_info = <<>> THEN "do_nothing"
    ELSE LET obstacle == Head(obstacles_info)
         IN  IF /\ obstacle.found
                /\ is_vertically_relevant(character_info, obstacle, twice_offset)
                /\ is_threat(character_info, obstacle)
             THEN IF 2 * character_info.x + character_info.width
                        > 2 * obstacle.x + obstacle.width
                  THEN "move_right"
                  ELSE "move_left"
             ELSE ScanObstacles(character_info, Tail(obstacles_info), twice_offset)

\* lines 359-448: the action returned, or the exception raised
make_decision(character_info, obstacles_info) ==
    IF character_info = <<>> \/ ~character_info[1].found
    THEN "do_nothing"
    ELSE LET offset == ForwardScanOffset(character_info[1])
         IN  IF offset.raises # "" THEN offset.raises
             ELSE ScanObstacles(character_info[1], obstacles_info, offset.twice)

\* the longest obstacle list tried
MaxObstacles == 2

\* no character, a character not found, and found characters 40 wide at
\* x = 100, y = 200 with the heights 0 and 60
Characters ==
    {<<>>, <<Box(0, 0, 0, 0, FALSE)>>,
     <<Box(100, 200, 40, 0, TRUE)>>, <<Box(100, 200, 40, 60, TRUE)>>}

\* obstacles 40 wide and 30 high: at the character's level to its left, to
\* its right, centred on it and far to the right, one far above it, and an
\* entry that is not found
Obstacles ==
    {Box(60, 190, 40, 30, TRUE), Box(140, 190, 40, 30, TRUE),
     Box(100, 190, 40, 30, TRUE), Box(300, 190, 40, 30, TRUE),
     Box(60, 0, 40, 30, TRUE), Box(60, 190, 40, 30, FALSE)}

ObstacleLists == UNION {[1..n -> Obstacles] : n \in 0..MaxObstacles}

\* lines 543-549: one pass of the loop detects and decides
DecideStep == \E character_info \in Characters, obstacles_info \in ObstacleLists :
    /\ frame' = [character_info |-> character_info,
                 obstacles_info |-> obstacles_info,
                 decision |-> make_decision(character_info, obstacles_info)]
    /\ UNCHANGED <<store, now, update, sent, chat_history, tasks>>

NextDecision == DecideStep

SpecDecision == Init /\ [][NextDecision]_vars

\* ------------------------------------------------------------ all of it

Next ==
    \/ NextRoles
    \/ NextMute
    \/ NextDuration
    \/ NextReport
    \/ NextMessage
    \/ NextSpam
    \/ NextExempt
    \/ NextOrder
    \/ NextEscalation
    \/ NextReject
    \/ NextLifecycle
    \/ NextAdmin
    \/ NextInput
    \/ NextTarget
    \/ NextKeyword
    \/ NextOverwrite
    \/ NextChats
    \/ NextPromote
    \/ NextTotals
    \/ NextInterleave
    \/ NextDecision

Spec == Init /\ [][Next]_vars

\* ------------------------------------------------------------ claims: roles

\* the role stored for (chat, user) in a role map, "absent" when none is
StoredRole(roles, chat_id, user_id) ==
    Get(Get(roles, chat_id, EmptyDict), user_id, "absent")

\* the role a (chat, user) resolves to in the current state
RoleNow(chat_id, user_id) ==
    IF StoredRole(user_roles, chat_id, user_id) = "absent" THEN USER
    ELSE StoredRole(user_roles, chat_id, user_id)

RoleCmds == {"setadmin", "setmoderator", "removepermission"}

RoleOfCmd(cmd) ==
    IF cmd = "setadmin" THEN ADMIN
    ELSE IF cmd = "setmoderator" THEN MODERATOR
    ELSE USER

\* C1: in every reachable state and every chat the owner resolves to ADMIN,
\* whether or not the owner has sent /start or has a stored role there.
C1_OwnerAlwaysAdmin ==
    \A c \in Chats : get_user_role(c, BOT_OWNER_ID) = ADMIN

\* C2: every role change made by /setadmin, /setmoderator or
\* /removepermission is authorized: the changed entry is in the command's
\* chat and holds the command's role; MODERATOR and USER are set only by a
\* caller who is ADMIN in that chat, ADMIN only by an ADMIN or the owner; and
\* the owner's /setadmin on a resolvable user succeeds with no roles stored.
C2_RoleChangeAuthorized ==
    [][ update'.cmd \in RoleCmds =>
          LET c == update'.chat
              u == update'.user
          IN  /\ user_roles' # user_roles =>
                    /\ update'.cmd \in {"setmoderator", "removepermission"}
                          => RoleNow(c, u) = ADMIN
                    /\ update'.cmd = "setadmin"
                          => (RoleNow(c, u) = ADMIN \/ u = BOT_OWNER_ID)
                    /\ \A c2 \in Chats, t \in Users :
                          StoredRole(user_roles', c2, t) # StoredRole(user_roles, c2, t)
                             => c2 = c /\ StoredRole(user_roles', c2, t) = RoleOfCmd(update'.cmd)
              /\ ( /\ user_roles = EmptyDict
                   /\ update'.cmd = "setadmin"
                   /\ u = BOT_OWNER_ID
                   /\ SetRoleTarget(update').err = "" )
                    => StoredRole(user_roles', c, SetRoleTarget(update').id) = ADMIN
      ]_vars

\* the owner, holding no stored role, has made another user ADMIN
C2_Witness ==
    /\ update.cmd = "setadmin"
    /\ update.user = BOT_OWNER_ID
    /\ StoredRole(user_roles, update.chat, BOT_OWNER_ID) = "absent"
    /\ \E t \in Users \ {BOT_OWNER_ID} : StoredRole(user_roles, update.chat, t) = ADMIN
    /\ sent = <<Reply("role set to ADMIN")>>

\* C3: a role command leaves the whole store as it was and answers with a
\* rejection when the caller lacks authorization, and when the target is the
\* owner and the caller is not.
C3_RejectedRoleCommandNoMutation ==
    [][ update'.cmd \in RoleCmds =>
          LET c == update'.chat
              u == update'.user
              authorized == IF update'.cmd = "setadmin"
                            THEN RoleNow(c, u) = ADMIN \/ u = BOT_OWNER_ID
                            ELSE RoleNow(c, u) = ADMIN
              target == SetRoleTarget(update')
          IN  ( \/ ~authorized
                \/ (target.err = "" /\ target.id = BOT_OWNER_ID /\ u # BOT_OWNER_ID) )
                => /\ UNCHANGED store
                   /\ Len(sent') = 1
                   /\ sent'[1].msg \notin
                         {"role set to " \o r : r \in {ADMIN, MODERATOR, USER}}
      ]_vars

\* an ADMIN who is not the owner has tried to change the owner's role
C3_Witness ==
    /\ update.cmd \in RoleCmds
    /\ update.user # BOT_OWNER_ID
    /\ RoleNow(update.chat, update.user) = ADMIN
    /\ sent = <<Reply("Cannot change the role of the bot owner.")>>

\* C4 as stated: no role command, the owner's included, writes or changes the
\* role stored for the owner.
C4_NobodyChangesOwnerRole ==
    [][ update'.cmd \in RoleCmds =>
          \A c \in Chats :
              StoredRole(user_roles', c, BOT_OWNER_ID) = StoredRole(user_roles, c, BOT_OWNER_ID)
      ]_vars

\* C4 amended: no role command issued by a user other than the owner writes
\* or changes the role stored for the owner.
C4_NonOwnerNeverChangesOwnerRole ==
    [][ (update'.cmd \in RoleCmds /\ update'.user # BOT_OWNER_ID) =>
          \A c \in Chats :
              StoredRole(user_roles', c, BOT_OWNER_ID) = StoredRole(user_roles, c, BOT_OWNER_ID)
      ]_vars

\* the owner is stored as MODERATOR (the owner's own doing) and an ADMIN's
\* role command aimed at the owner has left it so
C4_Witness ==
    /\ update.cmd \in RoleCmds
    /\ update.user # BOT_OWNER_ID
    /\ RoleNow(update.chat, update.user) = ADMIN
    /\ SetRoleTarget(update).err = ""
    /\ SetRoleTarget(update).id = BOT_OWNER_ID
    /\ StoredRole(user_roles, update.chat, BOT_OWNER_ID) = MODERATOR

\* ------------------------------------------------------------ claims: mutes

\* the expiry stored for (chat, user) in a mute map, -1 when there is none
MuteRecord(muted, chat_id, user_id) ==
    Get(Get(muted, chat_id, EmptyDict), user_id, -1)

\* C5: no /mute and no report issued by a user other than the owner creates
\* or changes a mute record of the owner, in any chat.
C5_OwnerNotMutedByOthers ==
    [][ (update'.cmd \in {"mute", "report"} /\ update'.user # BOT_OWNER_ID) =>
          \A c \in Chats :
              MuteRecord(muted_users', c, BOT_OWNER_ID) = MuteRecord(muted_users, c, BOT_OWNER_ID)
      ]_vars

\* C6: no /kick and no report issued by a user other than the owner makes a
\* kick_chat_member call on the owner.
C6_OwnerNotKickedByOthers ==
    [][ (update'.cmd \in {"kick", "report"} /\ update'.user # BOT_OWNER_ID) =>
          \A i \in 1..Len(sent') : sent'[i] # Kick(BOT_OWNER_ID)
      ]_vars

\* C7: a /mute that creates or changes a mute record, or answers that the
\* user has been muted, comes from a caller who is MODERATOR or ADMIN in the
\* chat; the owner if the target is ADMIN; an ADMIN or the owner if the target
\* is MODERATOR.  A /mute from a caller with role USER is rejected and leaves
\* the mute map as it was.
C7_MuteAuthorized ==
    [][ update'.cmd = "mute" =>
          LET c == update'.chat
              u == update'.user
              Permitted(t) ==
                  /\ RoleNow(c, u) \in {MODERATOR, ADMIN}
                  /\ RoleNow(c, t) = ADMIN => u = BOT_OWNER_ID
                  /\ RoleNow(c, t) = MODERATOR => (RoleNow(c, u) = ADMIN \/ u = BOT_OWNER_ID)
          IN  /\ \A c2 \in Chats, t \in Users :
                    MuteRecord(muted_users', c2, t) # MuteRecord(muted_users, c2, t)
                       => c2 = c /\ Permitted(t)
              /\ sent' = <<Reply("has been muted")>> => Permitted(ArgTarget(update').id)
              /\ RoleNow(c, u) = USER =>
                    /\ muted_users' = muted_users
                    /\ sent' = <<Reply("You are not authorized to mute users.")>>
      ]_vars

\* the owner has muted an ADMIN, and a MODERATOR's /mute has just been served
\* or refused in a chat where a MODERATOR holds a mute record
C7_Witness ==
    /\ update.cmd = "mute"
    /\ update.user = BOT_OWNER_ID
    /\ sent = <<Reply("has been muted")>>
    /\ RoleNow(update.chat, ArgTarget(update).id) = ADMIN
    /\ ArgTarget(update).id # BOT_OWNER_ID
    /\ MuteRecord(muted_users, update.chat, ArgTarget(update).id) # -1
    /\ \E t \in Users : RoleNow(update.chat, t) = MODERATOR
                        /\ MuteRecord(muted_users, update.chat, t) # -1

\* the claim's duration form: an integer n >= 0 in digits, then m, h or d
WellFormedDuration(s) ==
    /\ Len(s) >= 2
    /\ s[Len(s)] \in {"m", "h", "d"}
    /\ IsDigit(SubSeq(s, 1, Len(s) - 1))

\* n units in seconds
WellFormedSeconds(s) ==
    DigitsValue(SubSeq(s, 1, Len(s) - 1))
        * (IF s[Len(s)] = "m" THEN 60 ELSE IF s[Len(s)] = "h" THEN 3600 ELSE 86400)

\* C8: for an authorized caller and a resolvable, permitted target, /mute
\* with a duration <integer><unit> (n >= 0, unit m, h or d) stores
\* expiry = now + n units for (chat, target); with any other duration string
\* it is rejected as invalid and the mute map is unchanged.
C8_MuteDuration ==
    [][ ( /\ update'.cmd = "mute"
          /\ Len(update'.args) >= 2
          /\ RoleNow(update'.chat, update'.user) \in {MODERATOR, ADMIN}
          /\ ArgTarget(update').err = ""
          /\ RoleNow(update'.chat, ArgTarget(update').id) = USER ) =>
          LET c == update'.chat
              t == ArgTarget(update').id
              d == update'.args[2]
          IN  IF WellFormedDuration(d)
              THEN /\ MuteRecord(muted_users', c, t) = now + WellFormedSeconds(d)
                   /\ sent' = <<Reply("has been muted")>>
              ELSE /\ muted_users' = muted_users
                   /\ sent' = <<Reply("Invalid duration format.")>>
      ]_vars

\* C9: /unmute from a MODERATOR or ADMIN with a resolvable target removes the
\* target's mute record when there is one, leaving every other record and the
\* rest of the store as they were, and otherwise answers that the user is not
\* muted and changes nothing; from a caller with role USER it is rejected and
\* changes nothing.
C9_Unmute ==
    [][ update'.cmd = "unmute" =>
          LET c == update'.chat
              u == update'.user
              t == ArgTarget(update').id
          IN  IF RoleNow(c, u) = USER
              THEN /\ UNCHANGED store
                   /\ sent' = <<Reply("You are not authorized to unmute users.")>>
              ELSE (Len(update'.args) >= 1 /\ ArgTarget(update').err = "") =>
                   IF MuteRecord(muted_users, c, t) # -1
                   THEN /\ MuteRecord(muted_users', c, t) = -1
                        /\ \A c2 \in Chats, t2 \in Users :
                              (c2 # c \/ t2 # t) =>
                                 MuteRecord(muted_users', c2, t2) = MuteRecord(muted_users, c2, t2)
                        /\ UNCHANGED <<user_roles, message_timestamps, user_reports,
                                       spam_protection_enabled,
                                       enable_auto_actions_on_reports>>
                        /\ sent' = <<Reply("has been unmuted.")>>
                   ELSE /\ UNCHANGED store
                        /\ sent' = <<Reply("is not currently muted.")>>
      ]_vars

\* a MODERATOR has unmuted one user while another user of the chat stays muted
C9_Witness ==
    /\ update.cmd = "unmute"
    /\ RoleNow(update.chat, update.user) = MODERATOR
    /\ sent = <<Reply("has been unmuted.")>>
    /\ MuteRecord(muted_users, update.chat, ArgTarget(update).id) = -1
    /\ \E t \in Users : MuteRecord(muted_users, update.chat, t) # -1

\* the sender's messages in the trailing window, this one included, as the
\* handler left them
WindowCount(timestamps, chat_id, user_id) ==
    Len(Get(Get(timestamps, chat_id, EmptyDict), user_id, <<>>))

\* C10 as stated: for a sender with a mute record, a text message arriving
\* while now < expiry is deleted and the record is kept, whatever the role
\* and the spam setting; once now >= expiry the next text message, whatever
\* its content and rate, is not deleted and the record is removed.
C10_MuteExpiry ==
    [][ ( /\ update'.cmd = "text"
          /\ MuteRecord(muted_users, update'.chat, update'.user) # -1 ) =>
          LET c == update'.chat
              u == update'.user
          IN  IF now < MuteRecord(muted_users, c, u)
              THEN /\ \E i \in 1..Len(sent') : sent'[i] = Delete
                   /\ MuteRecord(muted_users', c, u) # -1
              ELSE /\ \A i \in 1..Len(sent') : sent'[i] # Delete
                   /\ MuteRecord(muted_users', c, u) = -1
      ]_vars

\* C10 amended: while now < expiry every text message of the sender is
\* deleted and a record is kept, whatever the role and the spam setting.
\* Once now >= expiry, the next text message that the spam guard does not
\* stop (the sender is ADMIN or MODERATOR, or spam protection is off, or the
\* message is within the rate limit and holds no forbidden keyword) is not
\* deleted and the record is removed; one stopped by the keyword filter is
\* deleted with the expired record left in place, and one stopped by the rate
\* limit is deleted with the record replaced by now + 300.
C10_MuteExpiryUnlessSpamGuardStops ==
    [][ ( /\ update'.cmd = "text"
          /\ MuteRecord(muted_users, update'.chat, update'.user) # -1 ) =>
          LET c == update'.chat
              u == update'.user
              guarded == spam_protection_enabled /\ RoleNow(c, u) = USER
              overRate == WindowCount(message_timestamps', c, u) > 5
              deleted == \E i \in 1..Len(sent') : sent'[i] = Delete
          IN  IF now < MuteRecord(muted_users, c, u)
              THEN /\ deleted
                   /\ MuteRecord(muted_users', c, u) # -1
              ELSE IF guarded /\ overRate
              THEN /\ deleted
                   /\ MuteRecord(muted_users', c, u) = now + 300
              ELSE IF guarded /\ HasForbiddenKeyword(update'.text)
              THEN /\ deleted
                   /\ MuteRecord(muted_users', c, u) = MuteRecord(muted_users, c, u)
              ELSE /\ ~deleted
                   /\ MuteRecord(muted_users', c, u) = -1
      ]_vars

\* a muted ADMIN's message has been deleted before the expiry, with spam
\* protection switched off
C10_Witness ==
    /\ update.cmd = "text"
    /\ RoleNow(update.chat, update.user) = ADMIN
    /\ ~spam_protection_enabled
    /\ sent = <<Delete>>
    /\ now < MuteRecord(muted_users, update.chat, update.user)

\* ------------------------------------------------------------ claims: spam guard

\* a call was made, whether the platform carried it out or refused it
Attempted(calls, c) ==
    \E i \in 1..Len(calls) : calls[i] = c \/ calls[i] = Failed(c)

SpamNotice(chat_id) == Send(chat_id, "automatically muted for spamming", 0)

KeywordWarning == Reply("your message was removed due to forbidden content.")

\* the entries of the platform's history for (chat, user)
HistoryOf(hist, chat_id, user_id) ==
    Get(Get(hist, chat_id, EmptyDict), user_id, <<>>)

\* how many of the user's text messages in the chat have a time t with
\* current_time - t < 10
RecentTexts(hist, chat_id, user_id, current_time) ==
    Len(SelectSeq(HistoryOf(hist, chat_id, user_id),
                  LAMBDA e : current_time - e.time < 10))

\* the same count over the messages that were handled while spam protection
\* was enabled and their sender's role was USER
GuardedRecentTexts(hist, chat_id, user_id, current_time) ==
    Len(SelectSeq(HistoryOf(hist, chat_id, user_id),
                  LAMBDA e : e.guarded /\ current_time - e.time < 10))

\* C13 as stated: with spam protection enabled, a text message from a USER
\* triggers the rate-limit action exactly when, counting this message, more
\* than 5 of the sender's text messages in the chat have a time t with
\* now - t < 10; the action sets the sender's expiry to now + 300, notifies
\* the chat and stops the handling; otherwise the sender is not spam-muted.
C13_RateLimitCountsAllTexts ==
    [][ ( /\ update'.cmd = "text"
          /\ spam_protection_enabled
          /\ RoleNow(update'.chat, update'.user) = USER ) =>
          LET c == update'.chat
              u == update'.user
              triggered == Attempted(sent', SpamNotice(c))
          IN  /\ triggered <=> RecentTexts(chat_history', c, u, now) > 5
              /\ triggered =>
                    /\ MuteRecord(muted_users', c, u) = now + 300
                    /\ Len(sent') = 2
                    /\ Attempted(sent', Delete)
              /\ ~triggered =>
                    MuteRecord(muted_users', c, u) \in {MuteRecord(muted_users, c, u), -1}
      ]_vars

\* C13 amended: the count is over the sender's text messages in the chat
\* that were handled while spam protection was enabled and the sender's role
\* was USER; messages handled while protection was off or while the sender
\* was ADMIN or MODERATOR do not count.
C13_RateLimitCountsGuardedTexts ==
    [][ ( /\ update'.cmd = "text"
          /\ spam_protection_enabled
          /\ RoleNow(update'.chat, update'.user) = USER ) =>
          LET c == update'.chat
              u == update'.user
              triggered == Attempted(sent', SpamNotice(c))
          IN  /\ triggered <=> GuardedRecentTexts(chat_history', c, u, now) > 5
              /\ triggered =>
                    /\ MuteRecord(muted_users', c, u) = now + 300
                    /\ Len(sent') = 2
                    /\ Attempted(sent', Delete)
              /\ ~triggered =>
                    MuteRecord(muted_users', c, u) \in {MuteRecord(muted_users, c, u), -1}
      ]_vars

\* a USER's sixth guarded message within ten seconds, the first of them five
\* seconds old, has been answered with the spam mute
C13_Witness ==
    /\ update.cmd = "text"
    /\ now = 10
    /\ Attempted(sent, SpamNotice(update.chat))
    /\ MuteRecord(muted_users, update.chat, update.user) = now + 300
    /\ HistoryOf(chat_history, update.chat, update.user)[1].time = 5
    /\ GuardedRecentTexts(chat_history, update.chat, update.user, now) = 6

\* C12: a text message from an ADMIN or MODERATOR sender, or handled while
\* spam protection is disabled, adds no timestamp to any rate-limit window,
\* creates no spam mute and is not removed by the keyword filter: no spam
\* notice and no keyword warning is sent, the sender's mute record is left
\* as it was or removed, and the message is deleted only for a sender who
\* is still muted.
C12_SpamGuardOnlyForUsers ==
    [][ ( /\ update'.cmd = "text"
          /\ \/ RoleNow(update'.chat, update'.user) \in {ADMIN, MODERATOR}
             \/ ~spam_protection_enabled ) =>
          LET c == update'.chat
              u == update'.user
          IN  /\ message_timestamps' = message_timestamps
              /\ ~Attempted(sent', SpamNotice(c))
              /\ ~Attempted(sent', KeywordWarning)
              /\ MuteRecord(muted_users', c, u) \in {MuteRecord(muted_users, c, u), -1}
              /\ Attempted(sent', Delete) => now < MuteRecord(muted_users, c, u)
      ]_vars

\* with spam protection enabled, a MODERATOR's seventh message within the
\* instant, holding a forbidden keyword, has passed untouched
C12_Witness ==
    /\ update.cmd = "text"
    /\ spam_protection_enabled
    /\ RoleNow(update.chat, update.user) = MODERATOR
    /\ HasForbiddenKeyword(update.text)
    /\ RecentTexts(chat_history, update.chat, update.user, now) = 7
    /\ sent = <<>>
    /\ MuteRecord(muted_users, update.chat, update.user) = -1

\* C14: for a text message that the spam guard handles, the checks run in
\* the order rate limit, keyword filter, mute check, and the first that
\* fires ends the handling: over the rate limit the message gets the spam
\* mute and no keyword warning, whatever its text; within the limit and
\* holding a forbidden keyword it is deleted and warned about and the mute
\* map stays as it was, an expired record included; only a message that
\* passes both reaches the mute check.
C14_ChecksInOrder ==
    [][ ( /\ update'.cmd = "text"
          /\ spam_protection_enabled
          /\ RoleNow(update'.chat, update'.user) = USER ) =>
          LET c == update'.chat
              u == update'.user
              over == GuardedRecentTexts(chat_history', c, u, now) > 5
              keyword == HasForbiddenKeyword(update'.text)
              expiry == MuteRecord(muted_users, c, u)
          IN  IF over
              THEN /\ Attempted(sent', SpamNotice(c))
                   /\ ~Attempted(sent', KeywordWarning)
                   /\ Len(sent') = 2
                   /\ MuteRecord(muted_users', c, u) = now + 300
              ELSE IF keyword
              THEN /\ ~Attempted(sent', SpamNotice(c))
                   /\ Attempted(sent', Delete)
                   /\ sent'[1] = Delete => Attempted(sent', KeywordWarning)
                   /\ muted_users' = muted_users
              ELSE /\ ~Attempted(sent', SpamNotice(c))
                   /\ ~Attempted(sent', KeywordWarning)
                   /\ IF expiry # -1 /\ now < expiry
                      THEN Attempted(sent', Delete) /\ muted_users' = muted_users
                      ELSE sent' = <<>> /\ MuteRecord(muted_users', c, u) = -1
      ]_vars

\* one minute in, a message over the rate limit that holds a forbidden
\* keyword has got the spam mute and no warning
C14_Witness ==
    /\ update.cmd = "text"
    /\ HasForbiddenKeyword(update.text)
    /\ now = 60
    /\ Attempted(sent, SpamNotice(update.chat))
    /\ ~Attempted(sent, KeywordWarning)
    /\ MuteRecord(muted_users, update.chat, update.user) = now + 300

\* ------------------------------------------------------------ claims: reports

\* the report log of (chat, user) in a report map, empty when there is none
LogOf(reports, chat_id, user_id) ==
    Get(Get(reports, chat_id, EmptyDict), user_id, <<>>)

\* a /report that names a user and gives a reason
WellFormedReport(upd) ==
    /\ upd.cmd = "report"
    /\ ReportTarget(upd).err = ""
    /\ ReportTarget(upd).id # NoUser
    /\ Len(ReportTarget(upd).reason_parts) > 0

\* an accepted /report: well formed, not against the reporter and not
\* against an ADMIN or MODERATOR of the chat
AcceptedReport(upd) ==
    /\ WellFormedReport(upd)
    /\ ReportTarget(upd).id # upd.user
    /\ RoleNow(upd.chat, ReportTarget(upd).id) = USER

\* the users whose stored role in the chat is ADMIN
AdminsOf(chat_id) == {a \in Users : StoredRole(user_roles, chat_id, a) = ADMIN}

\* the direct messages among the calls: send_message calls, carried out or
\* refused, addressed to a user
DirectMessages(calls) ==
    {i \in 1..Len(calls) :
        /\ calls[i].to \in Users
        /\ \/ calls[i].call = "send_message"
           \/ (calls[i].call = "failed" /\ calls[i].msg = "send_message")}

\* C15: a /report whose target is the reporter, or whose target's role in
\* the chat is ADMIN or MODERATOR at that moment, is rejected: the report
\* logs and the rest of the store stay as they were, no direct message, no
\* other send_message and no kick is issued, and the only call is the reply
\* that rejects.
C15_RejectedReport ==
    [][ ( /\ update'.cmd = "report"
          /\ ReportTarget(update').err = ""
          /\ ReportTarget(update').id # NoUser
          /\ \/ ReportTarget(update').id = update'.user
             \/ RoleNow(update'.chat, ReportTarget(update').id) \in {ADMIN, MODERATOR} ) =>
          LET t == ReportTarget(update').id
              rejection ==
                  IF Len(ReportTarget(update').reason_parts) = 0
                  THEN Reply("Please provide a reason for your report.")
                  ELSE IF t = update'.user THEN Reply("You cannot report yourself.")
                  ELSE Reply("You cannot report Admins or Moderators.")
          IN  /\ UNCHANGED store
              /\ DirectMessages(sent') = {}
              /\ ~Attempted(sent', Kick(t))
              /\ sent' \in {<<rejection>>, <<Failed(rejection), Raise("TelegramError")>>}
      ]_vars

\* a report against a MODERATOR has been rejected in a chat where another
\* user has a report log and, by it, a mute record
C15_Witness ==
    /\ update.cmd = "report"
    /\ RoleNow(update.chat, ReportTarget(update).id) = MODERATOR
    /\ sent = <<Reply("You cannot report Admins or Moderators.")>>
    /\ LogOf(user_reports, update.chat, ReportTarget(update).id) = <<>>
    /\ \E t \in Users : /\ Len(LogOf(user_reports, update.chat, t)) >= 3
                         /\ MuteRecord(muted_users, update.chat, t) # -1

\* C16: every accepted /report appends exactly one record at the end of the
\* target's log for the chat, the earlier records unchanged and in order
\* (the log is emptied only by the automatic kick of the same call), and
\* sends one direct message to each user whose stored role in the chat is
\* ADMIN, and to nobody else, carrying the length of the log after the
\* append.
C16_ReportAppendsAndNotifies ==
    [][ AcceptedReport(update') =>
          LET c == update'.chat
              t == ReportTarget(update').id
              old == LogOf(user_reports, c, t)
              new == LogOf(user_reports', c, t)
          IN  /\ \/ /\ Len(new) = Len(old) + 1
                    /\ SubSeq(new, 1, Len(old)) = old
                    /\ new[Len(new)].reporter_id = update'.user
                    /\ new[Len(new)].timestamp = now
                 \/ /\ new = <<>>
                    /\ Attempted(sent', Kick(t))
              /\ \A a \in AdminsOf(c) :
                    Cardinality({i \in DirectMessages(sent') : sent'[i].to = a}) = 1
              /\ \A i \in DirectMessages(sent') :
                    sent'[i].to \in AdminsOf(c) /\ sent'[i].n = Len(old) + 1
      ]_vars

\* C17: with auto-actions enabled, an accepted report that brings the
\* target's total to 5 or more issues a kick and leaves the mute map as it
\* was.
C17_KickBeforeMute ==
    [][ ( /\ AcceptedReport(update')
          /\ enable_auto_actions_on_reports
          /\ Len(LogOf(user_reports, update'.chat, ReportTarget(update').id)) + 1 >= 5 ) =>
          /\ Attempted(sent', Kick(ReportTarget(update').id))
          /\ muted_users' = muted_users
      ]_vars

\* C18: after a report whose kick_chat_member call on the target was made
\* and succeeded, the target's report log in the chat is empty.
C18_LogEmptyAfterAutoKick ==
    [][ ( /\ update'.cmd = "report"
          /\ \E i \in 1..Len(sent') : sent'[i] = Kick(ReportTarget(update').id) ) =>
          LogOf(user_reports', update'.chat, ReportTarget(update').id) = <<>>
      ]_vars

\* C19: with auto-actions enabled, an accepted report that brings the
\* target's total to 3 or 4 sets the target's mute expiry in the chat to
\* now + 2 hours and announces the mute; one that brings it to 1 or 2 issues
\* no kick and leaves the mute map as it was.
C19_MuteAtThree ==
    [][ ( /\ AcceptedReport(update')
          /\ enable_auto_actions_on_reports ) =>
          LET c == update'.chat
              t == ReportTarget(update').id
              total == Len(LogOf(user_reports, c, t)) + 1
          IN  /\ total \in {3, 4} =>
                    /\ MuteRecord(muted_users', c, t) = now + 2 * 3600
                    /\ Attempted(sent', Send(c, "automatically muted", total))
                    /\ ~Attempted(sent', Kick(t))
              /\ total \in {1, 2} =>
                    /\ muted_users' = muted_users
                    /\ ~Attempted(sent', Kick(t))
      ]_vars

\* C20: while auto-actions are disabled an accepted report does no more
\* than append the record and notify the admins: no kick is issued, the
\* mute map and the rest of the store stay as they were and the log grows by
\* the one record, whatever the target's total.
C20_NoAutoActionsWhenDisabled ==
    [][ ( /\ AcceptedReport(update')
          /\ ~enable_auto_actions_on_reports ) =>
          LET c == update'.chat
              t == ReportTarget(update').id
          IN  /\ ~Attempted(sent', Kick(t))
              /\ \A i \in 1..Len(sent') : sent'[i].to # c
              /\ muted_users' = muted_users
              /\ Len(LogOf(user_reports', c, t)) = Len(LogOf(user_reports, c, t)) + 1
              /\ UNCHANGED <<user_roles, message_timestamps,
                             spam_protection_enabled, enable_auto_actions_on_reports>>
      ]_vars

\* with auto-actions disabled, the fifth report against a user muted by hand
\* has been filed and both ADMINs have been told
C20_Witness ==
    /\ update.cmd = "report"
    /\ ~enable_auto_actions_on_reports
    /\ Len(LogOf(user_reports, update.chat, ReportTarget(update).id)) = 5
    /\ MuteRecord(muted_users, update.chat, ReportTarget(update).id) = 60
    /\ Cardinality({sent[i].to : i \in DirectMessages(sent)}) = 2

\* C11: the mute record of a (chat, user) is created or given a new expiry
\* only by a successful /mute on that user, by the spam rate-limit trigger
\* on that user's own message or by the report-threshold mute of a report
\* against that user, and is removed only by a successful /unmute on that
\* user or by the expiry check on a message that user sends at or after the
\* expiry; role commands, /start, /kick, /clearreports and the toggles leave
\* the whole mute map as it was.
C11_MuteLifecycle ==
    [][ /\ \A c \in Chats, u \in Users :
            LET before == MuteRecord(muted_users, c, u)
                after == MuteRecord(muted_users', c, u)
            IN  /\ (after # -1 /\ after # before) =>
                      /\ update'.chat = c
                      /\ \/ /\ update'.cmd = "mute"
                            /\ ArgTarget(update').id = u
                            /\ sent' = <<Reply("has been muted")>>
                         \/ /\ update'.cmd = "text"
                            /\ update'.user = u
                            /\ \E i \in 1..Len(sent') :
                                  sent'[i].msg = "automatically muted for spamming"
                         \/ /\ update'.cmd = "report"
                            /\ ReportTarget(update').id = u
                            /\ \E i \in 1..Len(sent') :
                                  sent'[i].msg = "automatically muted"
                (* removed *)
                /\ (before # -1 /\ after = -1) =>
                      /\ update'.chat = c
                      /\ \/ /\ update'.cmd = "unmute"
                            /\ ArgTarget(update').id = u
                            /\ sent' = <<Reply("has been unmuted.")>>
                         \/ /\ update'.cmd = "text"
                            /\ update'.user = u
                            /\ now >= before
        /\ update'.cmd \in {"start", "setadmin", "setmoderator", "removepermission",
                             "kick", "clearreports", "togglespam", "toggleautoactions"}
              => muted_users' = muted_users
      ]_vars

\* user 3, muted by the third report, has been kicked by hand and is still
\* muted
C11_Witness ==
    /\ update.cmd = "kick"
    /\ sent = <<Kick(3), Reply("has been kicked.")>>
    /\ Len(LogOf(user_reports, 100, 3)) = 3
    /\ MuteRecord(muted_users, 100, 3) = now + 2 * 3600

\* ------------------------------------------------------------ claims: administration

\* the rejection each ADMIN-only command answers a caller who is not ADMIN
AdminOnlyRejection(cmd) ==
    CASE cmd = "listreports" -> "You are not authorized to list reports."
      [] cmd = "clearreports" -> "You are not authorized to clear reports."
      [] cmd = "toggleautoactions" -> "You are not authorized to change auto-action settings."
      [] cmd = "togglespam" -> "You are not authorized to change spam protection settings."
      [] cmd = "kick" -> "You are not authorized to kick users."

\* C21: /listreports, /clearreports, /toggleautoactions and /togglespam from
\* a caller whose role in the chat is not ADMIN are answered with the
\* rejection alone and leave the role map, the mute map, the windows, the
\* report logs and both flags as they were; /kick from such a caller is
\* answered with the rejection alone, so no kick_chat_member call is made.
C21_AdminOnlyCommands ==
    [][ ( /\ update'.cmd \in {"listreports", "clearreports", "toggleautoactions",
                               "togglespam", "kick"}
          /\ RoleNow(update'.chat, update'.user) # ADMIN ) =>
          /\ sent' = <<Reply(AdminOnlyRejection(update'.cmd))>>
          /\ user_roles' = user_roles
          /\ muted_users' = muted_users
          /\ message_timestamps' = message_timestamps
          /\ user_reports' = user_reports
          /\ spam_protection_enabled' = spam_protection_enabled
          /\ enable_auto_actions_on_reports' = enable_auto_actions_on_reports
      ]_vars

\* a MODERATOR has tried to clear the two reports against the muted user 3
C21_Witness ==
    /\ update.cmd = "clearreports"
    /\ RoleNow(update.chat, update.user) = MODERATOR
    /\ sent = <<Reply("You are not authorized to clear reports.")>>
    /\ Len(LogOf(user_reports, 100, 3)) = 2
    /\ MuteRecord(muted_users, 100, 3) # -1

\* the users a listing names
ListedUsers(listing) == {listing.entries[i].id : i \in 1..Len(listing.entries)}

\* the users of the chat with at least one report
ReportedUsers(reports, chat_id) ==
    {u \in DOMAIN Get(reports, chat_id, EmptyDict) : Len(LogOf(reports, chat_id, u)) > 0}

\* C22: /clearreports from an ADMIN on a target with at least one report
\* empties that target's log and nothing else, and on a target without
\* reports answers that none were found and changes nothing; /listreports
\* changes nothing, names exactly the users with at least one report, each
\* with the length of its log, and gives for one user exactly that user's
\* log, so a cleared target is not listed and has no reports to show; the
\* first accepted report against a cleared target makes a log of length 1,
\* announced as total 1 and followed by no automatic action.
C22_ClearAndListReports ==
    [][ LET c == update'.chat
            admin == RoleNow(c, update'.user) = ADMIN
        IN  /\ ( /\ update'.cmd = "clearreports" /\ admin
                 /\ Len(update'.args) > 0 /\ ClearTarget(update').err = "" ) =>
                  LET t == ClearTarget(update').id
                  IN  /\ IF Len(LogOf(user_reports, c, t)) > 0
                         THEN /\ sent' = <<Reply("have been cleared.")>>
                              /\ LogOf(user_reports', c, t) = <<>>
                              /\ ReportedUsers(user_reports', c)
                                    = ReportedUsers(user_reports, c) \ {t}
                              /\ \A u \in Users \ {t} :
                                    LogOf(user_reports', c, u) = LogOf(user_reports, c, u)
                         ELSE /\ sent' = <<Reply("No reports found to clear.")>>
                              /\ user_reports' = user_reports
                      /\ UNCHANGED <<user_roles, muted_users, message_timestamps,
                                     spam_protection_enabled,
                                     enable_auto_actions_on_reports>>
            /\ update'.cmd = "listreports" =>
                  /\ UNCHANGED store
                  /\ (admin /\ Len(update'.args) = 0) =>
                        IF ReportedUsers(user_reports, c) = {}
                        THEN sent' = <<Reply("There are no pending reports in this chat.")>>
                        ELSE /\ Len(sent') = 1
                             /\ ListedUsers(sent'[1]) = ReportedUsers(user_reports, c)
                             /\ \A i \in 1..Len(sent'[1].entries) :
                                   sent'[1].entries[i].n
                                     = Len(LogOf(user_reports, c, sent'[1].entries[i].id))
                  /\ ( /\ admin /\ Len(update'.args) > 0
                       /\ ClearTarget(update').err = "" ) =>
                        LET t == ClearTarget(update').id
                        IN  IF LogOf(user_reports, c, t) = <<>>
                            THEN sent' = <<Reply("No reports found for")>>
                            ELSE /\ Len(sent') = 1
                                 /\ sent'[1].entries = LogOf(user_reports, c, t)
            /\ ( /\ AcceptedReport(update')
                 /\ c \in DOMAIN user_reports
                 /\ ReportTarget(update').id \in DOMAIN user_reports[c]
                 /\ user_reports[c][ReportTarget(update').id] = <<>> ) =>
                  LET t == ReportTarget(update').id
                  IN  /\ Len(LogOf(user_reports', c, t)) = 1
                      /\ \A i \in DirectMessages(sent') : sent'[i].n = 1
                      /\ muted_users' = muted_users
                      /\ ~Attempted(sent', Kick(t))
      ]_vars

\* user 3, reported three times and muted for it, cleared by the owner, has
\* been reported again: the log holds this one report
C22_Witness ==
    /\ update.cmd = "report"
    /\ Len(LogOf(user_reports, 100, 3)) = 1
    /\ MuteRecord(muted_users, 100, 3) = now + 2 * 3600
    /\ \E i \in DirectMessages(sent) : sent[i].n = 1

\* ------------------------------------------------------------ claims: rejections

UnauthorizedReplies ==
    {"You are not authorized to set this role.",
     "You are not authorized to remove permissions.",
     "Only the bot owner or an Admin can set other admins.",
     "You are not authorized to mute users.",
     "You are not authorized to unmute users.",
     "You are not authorized to kick users.",
     "You are not authorized to change spam protection settings.",
     "You are not authorized to change auto-action settings.",
     "You are not authorized to list reports.",
     "You are not authorized to clear reports."}

MalformedReplies ==
    {"Usage: /<command> @username", "Could not find user",
     "Please reply to a user's message or mention them",
     "Usage: /mute <@username or user_id> <duration>",
     "To mute by username, please reply",
     "Please reply to a user's message to mute",
     "Invalid duration format.",
     "Usage: /unmute <@username or user_id>",
     "To unmute by username, please reply",
     "Please reply to a user's message to unmute",
     "Usage: /kick <@username or user_id> [reason]",
     "To kick by username, please reply",
     "Please reply, use linked @mention, or provide User ID to kick.",
     "Usage: /report <@username or user_id> <reason>",
     "Could not identify user", "Please provide a reason for your report.",
     "Could not determine user to report.",
     "Usage: /clearreports <@username or user_id>",
     "Could not parse User ID", "Could not identify user."}

\* the handler made one call, a reply with one of these texts
RepliedOneOf(calls, texts) == \E t \in texts : calls = <<Reply(t)>>

\* the caller lacks the role the command asks for
Unauthorized(upd) ==
    LET role == RoleNow(upd.chat, upd.user)
    IN  CASE upd.cmd \in {"kick", "togglespam", "toggleautoactions",
                          "listreports", "clearreports",
                          "setmoderator", "removepermission"} -> role # ADMIN
          [] upd.cmd = "setadmin" -> role # ADMIN /\ upd.user # BOT_OWNER_ID
          [] upd.cmd \in {"mute", "unmute"} -> role \notin {ADMIN, MODERATOR}
          [] OTHER -> FALSE

\* the command lacks an argument it needs
MissingArguments(upd) ==
    CASE upd.cmd = "mute" -> Len(upd.args) < 2
      [] upd.cmd \in {"setadmin", "setmoderator", "removepermission", "unmute",
                      "kick", "clearreports"} -> Len(upd.args) < 1
      [] upd.cmd = "report" ->
            Len(upd.args) < (IF upd.reply = NoUser THEN 2 ELSE 1)
      [] OTHER -> FALSE

\* the command names its target by an argument that is neither linked to a
\* user nor the number of one
UnresolvableTarget(upd) ==
    /\ upd.cmd \in {"setadmin", "setmoderator", "removepermission", "mute",
                     "unmute", "kick", "report", "listreports", "clearreports"}
    /\ Len(upd.args) >= 1
    /\ upd.reply = NoUser
    /\ upd.ment = NoMention
    /\ (~IsDigit(upd.args[1]) \/ DigitsValue(upd.args[1]) = 0)

\* the string does not end in one of the units m, h and d, in either case
NoDurationUnit(s) ==
    Len(s) = 0 \/ s[Len(s)] \notin {"m", "h", "d", "M", "H", "D"}

\* C23: a command answered with an Unauthorized or a MalformedInput rejection
\* (usage, unresolvable target, invalid duration) leaves the role map, the
\* mute map, the report logs, the rate-limit windows and both flags as they
\* were; and a command from a caller without the role it needs, or without
\* an argument it needs, or with an unresolvable target, or /mute of a USER
\* for a string without a unit, is answered so.
C23_RejectionsMutateNothing ==
    [][ /\ RepliedOneOf(sent', UnauthorizedReplies \cup MalformedReplies) =>
              UNCHANGED store
        /\ Unauthorized(update') => RepliedOneOf(sent', UnauthorizedReplies)
        /\ ( /\ ~Unauthorized(update')
             /\ MissingArguments(update') \/ UnresolvableTarget(update') ) =>
              RepliedOneOf(sent', MalformedReplies)
        /\ ( /\ update'.cmd = "mute"
             /\ ~Unauthorized(update')
             /\ ~MissingArguments(update')
             /\ ~UnresolvableTarget(update')
             /\ RoleNow(update'.chat, ArgTarget(update').id) = USER
             /\ NoDurationUnit(update'.args[2]) ) =>
              sent' = <<Reply("Invalid duration format.")>>
      ]_vars

\* user 2, a MODERATOR, has muted user 3 for "1z" while user 3 is muted, has
\* been reported and has a rate-limit window
C23_Witness ==
    /\ update.cmd = "mute"
    /\ update.user = 2
    /\ update.args = <<Arg3, DurBad>>
    /\ sent = <<Reply("Invalid duration format.")>>
    /\ RoleNow(100, 2) = MODERATOR
    /\ MuteRecord(muted_users, 100, 3) # -1
    /\ Len(LogOf(user_reports, 100, 3)) = 1
    /\ WindowCount(message_timestamps, 100, 3) = 1

\* ------------------------------------------------------------ claims: failing calls

\* C24: a refused outbound call never aborts the handling: no exception
\* leaves a handler, and an accepted report whose calls are refused, the
\* confirmation reply included, is still announced to every ADMIN and, with
\* auto-actions enabled, still kicks at a total of 5 or more (emptying the
\* log when the kick is carried out) and mutes for 2 hours at a total of 3
\* or 4.
C24_FailuresSwallowed ==
    [][ /\ \A i \in 1..Len(sent') : sent'[i].call # "raise"
        /\ AcceptedReport(update') =>
              LET c == update'.chat
                  t == ReportTarget(update').id
                  total == Len(LogOf(user_reports, c, t)) + 1
              IN  /\ \A a \in AdminsOf(c) :
                        \E i \in DirectMessages(sent') : sent'[i].to = a
                  /\ (enable_auto_actions_on_reports /\ total >= 5) =>
                        /\ Attempted(sent', Kick(t))
                        /\ (\E i \in 1..Len(sent') : sent'[i] = Kick(t)) =>
                              LogOf(user_reports', c, t) = <<>>
                  /\ (enable_auto_actions_on_reports /\ total \in {3, 4}) =>
                        MuteRecord(muted_users', c, t) = now + 2 * 3600
      ]_vars

\* ------------------------------------------------------------ claims: targets

\* the one rule: the author of the replied-to message, else the user of a
\* linked mention whose text or "@" username is the argument, else the
\* argument read as a number; NoUser when none of them resolves
RuleTarget(upd) ==
    IF upd.reply # NoUser THEN upd.reply
    ELSE IF Len(upd.args) = 0 THEN NoUser
    ELSE IF /\ upd.ment # NoMention
            /\ \/ upd.ment.text = upd.args[1]
               \/ <<"@">> \o upd.ment.username = upd.args[1]
    THEN upd.ment.id
    ELSE IF IsDigit(upd.args[1]) THEN DigitsValue(upd.args[1])
    ELSE NoUser

\* the command has done to user t what it does to its target
ActedOn(upd, t) ==
    CASE upd.cmd = "mute" ->
            /\ sent' = <<Reply("has been muted")>>
            /\ MuteRecord(muted_users', upd.chat, t) = now + 60
      [] upd.cmd = "unmute" ->
            /\ \/ /\ MuteRecord(muted_users, upd.chat, t) # -1
                  /\ sent' = <<Reply("has been unmuted.")>>
               \/ /\ MuteRecord(muted_users, upd.chat, t) = -1
                  /\ sent' = <<Reply("is not currently muted.")>>
            /\ MuteRecord(muted_users', upd.chat, t) = -1
      [] upd.cmd = "kick" -> sent' = <<Kick(t), Reply("has been kicked.")>>
      [] upd.cmd = "report" ->
            Len(LogOf(user_reports', upd.chat, t))
                = Len(LogOf(user_reports, upd.chat, t)) + 1
      [] upd.cmd = "removepermission" ->
            /\ sent' = <<Reply("role set to USER")>>
            /\ StoredRole(user_roles', upd.chat, t) = USER

\* C25: /mute, /unmute, /kick, /report and the role commands, sent by an
\* ADMIN, find their target by the one rule (replied-to author, else the
\* linked mention that matches the argument, else the argument as a number)
\* and act on it; when the rule finds nobody the command is answered with
\* an error and changes nothing.
C25_OneTargetRule ==
    [][ ( /\ update'.cmd \in {"mute", "unmute", "kick", "report", "removepermission"}
          /\ RoleNow(update'.chat, update'.user) = ADMIN ) =>
          IF RuleTarget(update') = NoUser
          THEN /\ RepliedOneOf(sent', MalformedReplies)
               /\ UNCHANGED store
          ELSE ActedOn(update', RuleTarget(update'))
      ]_vars

\* ------------------------------------------------------------ claims: parse_duration

\* C26: for the duration string of a /mute, parse_duration gives n minutes,
\* hours or days when the string is a non-negative integer n followed by
\* one of m, h and d, and None for every other string.
C26_ParseDuration ==
    (update.cmd = "mute" /\ Len(update.args) >= 2) =>
        LET duration_str == update.args[2]
        IN  IF WellFormedDuration(duration_str)
            THEN parse_duration(duration_str) = Duration(WellFormedSeconds(duration_str))
            ELSE parse_duration(duration_str) = NoDuration

\* ------------------------------------------------------------ claims: role lookup

\* C27: every (chat, user) resolves to USER at first, and to USER whenever
\* the chat stores no roles or none for the user, whatever the user's role
\* in another chat; and the role a (chat, user) resolves to changes only by
\* a successful role assignment to that user in that chat: a role command
\* answered with "role set to", or the owner's /start, which makes the
\* owner ADMIN of the chat.
C27_DefaultRoleUser ==
    /\ \A c \in Chats, u \in Users : get_user_role(c, u) = USER
    /\ [](\A c \in Chats, u \in Users :
            StoredRole(user_roles, c, u) = "absent" => get_user_role(c, u) = USER)
    /\ [][ \A c \in Chats, u \in Users :
              get_user_role(c, u)' # get_user_role(c, u) =>
                /\ update'.chat = c
                /\ \/ /\ update'.cmd \in RoleCmds
                      /\ Len(update'.args) > 0
                      /\ SetRoleTarget(update').id = u
                      /\ sent' = <<Reply("role set to " \o RoleOfCmd(update'.cmd))>>
                   \/ /\ update'.cmd = "start"
                      /\ update'.user = BOT_OWNER_ID
                      /\ u = BOT_OWNER_ID
          ]_vars

\* user 2 has been made ADMIN in chat 200 and is a USER in chat 100, where no
\* role is stored at all
C27_Witness ==
    /\ update.cmd = "setadmin"
    /\ update.chat = 200
    /\ StoredRole(user_roles, 200, 2) = ADMIN
    /\ 100 \notin DOMAIN user_roles
    /\ get_user_role(100, 2) = USER

\* C28: for every chat and user, under every role map, is_moderator holds
\* exactly when the user's role in the chat is ADMIN or MODERATOR and
\* is_admin exactly when it is ADMIN.
C28_RolePredicates ==
    \A c \in Chats, u \in Users :
        /\ is_moderator(c, u) <=> RoleNow(c, u) \in {ADMIN, MODERATOR}
        /\ is_admin(c, u) <=> RoleNow(c, u) = ADMIN

\* chat 100 has a MODERATOR (user 2), an ADMIN (user 3) and a user stored as
\* USER (the owner), and user 2 has no role in chat 200
C28_Witness ==
    /\ StoredRole(user_roles, 100, 2) = MODERATOR
    /\ is_moderator(100, 2) /\ ~is_admin(100, 2)
    /\ StoredRole(user_roles, 100, 3) = ADMIN
    /\ is_moderator(100, 3) /\ is_admin(100, 3)
    /\ StoredRole(user_roles, 100, BOT_OWNER_ID) = USER
    /\ ~is_moderator(100, BOT_OWNER_ID) /\ ~is_admin(100, BOT_OWNER_ID)
    /\ ~is_moderator(200, 2)

\* ------------------------------------------------------------ claims: keyword filter

\* the same character, letter case aside
SameLetter(a, b) ==
    a = b \/ \E i \in 1..26 : {a, b} = {UpperCase[i], LowerCase[i]}

\* the word occurs in the text as a run of adjacent characters, letter case
\* aside
OccursIn(word, text) ==
    \E k \in 0..(Len(text) - Len(word)) :
        \A j \in 1..Len(word) : SameLetter(text[k + j], word[j])

\* C29: a message that the keyword filter examines (spam protection
\* enabled, sender a USER, not stopped by the rate limit) is removed by it,
\* with the warning, exactly when one of the forbidden words occurs in its
\* text as a run of adjacent characters, letter case aside: in any letter
\* case and inside a longer word it does, split by other characters it does
\* not, and a message without text is never removed.
C29_KeywordFilter ==
    [][ ( /\ update'.cmd = "text"
          /\ spam_protection_enabled
          /\ RoleNow(update'.chat, update'.user) = USER
          /\ ~Attempted(sent', SpamNotice(update'.chat)) ) =>
          /\ sent' = <<Delete, KeywordWarning>>
                <=> \E k \in 1..Len(forbidden_keywords) :
                        OccursIn(forbidden_keywords[k], update'.text)
          /\ update'.text = <<>> => sent' = <<>>
          /\ update'.text = <<"k","e","y"," ","w","o","r","d","1">>
                => sent' # <<Delete, KeywordWarning>>
      ]_vars

\* "KeyWord1" from user 2 has been removed with the warning
C29_Witness ==
    /\ update.cmd = "text"
    /\ update.text = <<"K","e","y","W","o","r","d","1">>
    /\ sent = <<Delete, KeywordWarning>>

\* ------------------------------------------------------------ claims: rate-limit window

\* the rate-limit window stored for (chat, user), <<>> when there is none
WindowOf(timestamps, chat_id, user_id) ==
    Get(Get(timestamps, chat_id, EmptyDict), user_id, <<>>)

\* the times of a sequence of history entries, in their order
TimesOf(entries) == [i \in 1..Len(entries) |-> entries[i].time]

\* the times t, with current_time - t < 10 and in arrival order, of all the
\* user's text messages in the chat
RecentTimes(hist, chat_id, user_id, current_time) ==
    TimesOf(SelectSeq(HistoryOf(hist, chat_id, user_id),
                      LAMBDA e : current_time - e.time < 10))

\* the same of the messages that were handled while spam protection was
\* enabled and their sender's role was USER
GuardedRecentTimes(hist, chat_id, user_id, current_time) ==
    TimesOf(SelectSeq(HistoryOf(hist, chat_id, user_id),
                      LAMBDA e : e.guarded /\ current_time - e.time < 10))

\* C30 as stated: after the handling of any text message the sender's
\* window holds, in arrival order, exactly the times t of the sender's
\* messages in the chat with now - t < 10, the current one included.
C30_WindowHoldsAllRecentTexts ==
    [][ (update'.cmd = "text" /\ update'.text # <<>>) =>
          WindowOf(message_timestamps', update'.chat, update'.user)
              = RecentTimes(chat_history', update'.chat, update'.user, now)
      ]_vars

\* C30 amended: after the handling of a text message from a USER while spam
\* protection is enabled, the sender's window holds, in arrival order,
\* exactly the times t with now - t < 10 of the sender's messages in the
\* chat that were handled while protection was enabled and the sender was a
\* USER, the current one included; a text message from an ADMIN or
\* MODERATOR, or handled while protection is disabled, leaves every window
\* as it was, neither entered nor pruned.
C30_WindowHoldsGuardedRecentTexts ==
    [][ (update'.cmd = "text" /\ update'.text # <<>>) =>
          LET c == update'.chat
              u == update'.user
          IN  IF spam_protection_enabled /\ RoleNow(c, u) = USER
              THEN /\ WindowOf(message_timestamps', c, u)
                        = GuardedRecentTimes(chat_history', c, u, now)
                   /\ WindowOf(message_timestamps', c, u)
                        [Len(WindowOf(message_timestamps', c, u))] = now
                   /\ \A c2 \in Chats, u2 \in Users : (c2 # c \/ u2 # u) =>
                         WindowOf(message_timestamps', c2, u2)
                            = WindowOf(message_timestamps, c2, u2)
              ELSE message_timestamps' = message_timestamps
      ]_vars

\* at time 10 user 2's window is <<10>>: the message of time 0 has been
\* pruned, and the one of time 5, sent while protection was off, never
\* entered
C30_Witness ==
    /\ update.cmd = "text"
    /\ now = 10
    /\ WindowOf(message_timestamps, 100, 2) = <<10>>
    /\ \E i \in 1..Len(HistoryOf(chat_history, 100, 2)) :
          /\ HistoryOf(chat_history, 100, 2)[i].time = 0
          /\ HistoryOf(chat_history, 100, 2)[i].guarded
    /\ \E i \in 1..Len(HistoryOf(chat_history, 100, 2)) :
          /\ HistoryOf(chat_history, 100, 2)[i].time = 5
          /\ ~HistoryOf(chat_history, 100, 2)[i].guarded

\* ------------------------------------------------------------ claims: /start

\* C31: /start from the owner leaves the owner stored as ADMIN in that chat,
\* whatever was stored before, changes no other role entry of any chat and
\* nothing else of the store, and is answered with the role ADMIN; /start
\* from anyone else changes nothing.
C31_StartBootstrapsOwner ==
    [][ update'.cmd = "start" =>
          LET c == update'.chat
          IN  IF update'.user = BOT_OWNER_ID
              THEN /\ StoredRole(user_roles', c, BOT_OWNER_ID) = ADMIN
                   /\ sent' = <<Reply("Hello! Your role is: " \o ADMIN)>>
                   /\ \A c2 \in Chats, u2 \in Users :
                         (c2 # c \/ u2 # BOT_OWNER_ID) =>
                            StoredRole(user_roles', c2, u2) = StoredRole(user_roles, c2, u2)
                   /\ DOMAIN user_roles' = DOMAIN user_roles \cup {c}
                   /\ UNCHANGED <<muted_users, message_timestamps, user_reports,
                                  spam_protection_enabled,
                                  enable_auto_actions_on_reports>>
              ELSE UNCHANGED store
      ]_vars

\* the owner has sent /start in chat 100, where user 2 is ADMIN and user 3 a
\* MODERATOR, and is ADMIN there; in chat 200, where user 2 is ADMIN, the
\* owner has no stored role
C31_Witness ==
    /\ update.cmd = "start"
    /\ update.user = BOT_OWNER_ID
    /\ update.chat = 100
    /\ StoredRole(user_roles, 100, BOT_OWNER_ID) = ADMIN
    /\ StoredRole(user_roles, 100, 2) = ADMIN
    /\ StoredRole(user_roles, 100, 3) = MODERATOR
    /\ StoredRole(user_roles, 200, 2) = ADMIN
    /\ StoredRole(user_roles, 200, BOT_OWNER_ID) = "absent"

\* ------------------------------------------------------------ claims: overwritten mutes

\* the chat is told of a threshold mute at a total of 3 or 4 reports
ReportMuteNotice(calls, chat_id) ==
    \E n \in {3, 4} : \E i \in 1..Len(calls) :
        calls[i] = Send(chat_id, "automatically muted", n)

\* C32: a rate-limit trigger leaves the sender's expiry at now + 300 and a
\* threshold mute leaves the target's expiry at now + 2 h, whatever record
\* was stored before, a later one included; and a text message of a
\* guarded sender is entered in the sender's window also while the sender
\* is muted.
C32_AutomaticMutesOverwrite ==
    [][ LET c == update'.chat
        IN  /\ (update'.cmd = "text" /\ Attempted(sent', SpamNotice(c))) =>
                  MuteRecord(muted_users', c, update'.user) = now + 300
            /\ (update'.cmd = "report" /\ ReportMuteNotice(sent', c)) =>
                  MuteRecord(muted_users', c, ReportTarget(update').id) = now + 2 * 3600
            /\ ( /\ update'.cmd = "text" /\ update'.text # <<>>
                 /\ spam_protection_enabled
                 /\ RoleNow(c, update'.user) = USER
                 /\ MuteRecord(muted_users, c, update'.user) > now ) =>
                  LET old == WindowOf(message_timestamps, c, update'.user)
                      new == WindowOf(message_timestamps', c, update'.user)
                  IN  /\ Len(new) = Len(SelectSeq(old, LAMBDA t : now - t < 10)) + 1
                      /\ new[Len(new)] = now
      ]_vars

\* user 3, reported four times within this second (the third and the fourth
\* report set the expiry to now + 2 h), has sent a sixth message within the
\* second and is left with the expiry now + 300
C32_Witness ==
    /\ update.cmd = "text"
    /\ update.user = 3
    /\ sent = <<Delete, SpamNotice(100)>>
    /\ Len(LogOf(user_reports, 100, 3)) = 4
    /\ WindowCount(message_timestamps, 100, 3) = 6
    /\ MuteRecord(muted_users, 100, 3) = now + 300

\* C33: /unmute from a caller whose role is MODERATOR or ADMIN, with a
\* resolvable target that has a mute record, removes that record and answers
\* that the user has been unmuted, whatever the target's role, whoever wrote
\* the record, and whether or not the caller holds a mute record (the caller's
\* own record included).
C33_UnmuteUnrestricted ==
    [][ LET c == update'.chat
            u == update'.user
            t == ArgTarget(update')
        IN  ( /\ update'.cmd = "unmute"
              /\ get_user_role(c, u) \in {MODERATOR, ADMIN}
              /\ Len(update'.args) >= 1
              /\ t.err = ""
              /\ MuteRecord(muted_users, c, t.id) # -1 ) =>
               /\ MuteRecord(muted_users', c, t.id) = -1
               /\ sent' = <<Reply("has been unmuted.")>>
      ]_vars

\* MODERATOR 2 has removed the mute record of user 2 with /unmute 2 while
\* ADMIN 3 and the owner hold mute records in the chat
C33_Witness ==
    /\ update.cmd = "unmute"
    /\ update.user = 2
    /\ update.reply = NoUser
    /\ update.args = <<Arg2>>
    /\ get_user_role(100, 2) = MODERATOR
    /\ get_user_role(100, 3) = ADMIN
    /\ sent = <<Reply("has been unmuted.")>>
    /\ MuteRecord(muted_users, 100, 2) = -1
    /\ MuteRecord(muted_users, 100, 3) # -1
    /\ MuteRecord(muted_users, 100, BOT_OWNER_ID) # -1

\* the part of a two-level dictionary that belongs to a chat, "nokey" when
\* the chat has no key
ChatPart(d, chat_id) == Get(d, chat_id, "nokey")

\* C34: a command or message handled in chat c leaves the roles, the mute
\* records, the report logs and the rate-limit windows of every other chat as
\* they were; a switch changes only by its toggle command from an ADMIN of
\* the chat the command is sent in; and in whatever chat it was toggled, with
\* spam protection disabled a text in any chat leaves windows and mute
\* records alone, and with the automatic actions disabled an accepted report
\* in any chat extends the log and leaves the mute records alone.
C34_ChatIsolation ==
    [][ update'.cmd # "none" =>
          LET c == update'.chat
          IN  /\ \A c2 \in Chats \ {c} :
                    /\ ChatPart(user_roles', c2) = ChatPart(user_roles, c2)
                    /\ ChatPart(muted_users', c2) = ChatPart(muted_users, c2)
                    /\ ChatPart(user_reports', c2) = ChatPart(user_reports, c2)
                    /\ ChatPart(message_timestamps', c2) = ChatPart(message_timestamps, c2)
              /\ spam_protection_enabled' # spam_protection_enabled =>
                    update'.cmd = "togglespam" /\ is_admin(c, update'.user)
              /\ enable_auto_actions_on_reports' # enable_auto_actions_on_reports =>
                    update'.cmd = "toggleautoactions" /\ is_admin(c, update'.user)
              /\ (update'.cmd = "text" /\ ~spam_protection_enabled) =>
                    /\ message_timestamps' = message_timestamps
                    /\ muted_users' = muted_users
              /\ (AcceptedReport(update') /\ ~enable_auto_actions_on_reports) =>
                    /\ Len(LogOf(user_reports', c, ReportTarget(update').id))
                          = Len(LogOf(user_reports, c, ReportTarget(update').id)) + 1
                    /\ muted_users' = muted_users
      ]_vars

\* nobody holds a role in chat 200, so both switches were turned off from
\* chat 100; user 2 has just filed in chat 200 the report that leaves user 3
\* unmuted there, user 3's earlier text in chat 200 was not entered in a
\* window, and chat 100 holds roles, a mute record and a report log
C34_Witness ==
    /\ update.cmd = "report"
    /\ update.chat = 200
    /\ 200 \notin DOMAIN user_roles
    /\ ~spam_protection_enabled
    /\ ~enable_auto_actions_on_reports
    /\ Len(LogOf(user_reports, 200, 3)) = 1
    /\ 200 \in DOMAIN chat_history
    /\ 200 \notin DOMAIN message_timestamps
    /\ is_admin(100, 2)
    /\ MuteRecord(muted_users, 100, 3) # -1
    /\ Len(LogOf(user_reports, 100, 3)) = 4

\* C35: a role command that passes its checks sets the target's role entry
\* in that chat and changes no other role entry and no other map or switch,
\* and a /kick changes no map and no switch at all: the mute record, the
\* report log and the window of the re-roled or kicked user stay as they
\* were, and so does the role of the kicked user.
C35_RoleAndKickFrame ==
    [][ LET c == update'.chat
        IN  /\ ( /\ update'.cmd \in RoleCmds
                 /\ sent' = <<Reply("role set to " \o RoleOfCmd(update'.cmd))>> ) =>
                  LET t == SetRoleTarget(update').id
                  IN  /\ StoredRole(user_roles', c, t) = RoleOfCmd(update'.cmd)
                      /\ \A c2 \in Chats, u2 \in Users :
                            (c2 # c \/ u2 # t) =>
                               StoredRole(user_roles', c2, u2) = StoredRole(user_roles, c2, u2)
                      /\ DOMAIN user_roles' = (DOMAIN user_roles) \cup {c}
                      /\ UNCHANGED <<muted_users, message_timestamps, user_reports,
                                     spam_protection_enabled,
                                     enable_auto_actions_on_reports>>
            /\ update'.cmd = "kick" => UNCHANGED store
      ]_vars

\* user 3, muted by the third report while a USER (the expiry now + 2 h is
\* written for reported USERs only), has been made MODERATOR by the owner
\* and keeps the mute record, the three reports and the window
C35_Witness ==
    /\ update.cmd = "setmoderator"
    /\ sent = <<Reply("role set to " \o MODERATOR)>>
    /\ StoredRole(user_roles, 100, 3) = MODERATOR
    /\ MuteRecord(muted_users, 100, 3) = now + 2 * 3600
    /\ Len(LogOf(user_reports, 100, 3)) = 3
    /\ WindowCount(message_timestamps, 100, 3) = 2

\* C36: with auto-actions enabled, an accepted report from a reporter with
\* role USER against a target all of whose earlier records are by that same
\* reporter counts like any other: the log grows by the record (or is cleared
\* by the automatic kick), the third such report sets the target's mute
\* expiry to now + 2 hours and the fifth issues the kick.
C36_SingleReporterEscalates ==
    [][ LET c == update'.chat
            r == update'.user
            t == ReportTarget(update').id
            old == LogOf(user_reports, c, t)
            total == Len(old) + 1
        IN  ( /\ AcceptedReport(update')
              /\ enable_auto_actions_on_reports
              /\ RoleNow(c, r) = USER
              /\ \A i \in 1..Len(old) : old[i].reporter_id = r ) =>
               /\ \/ Len(LogOf(user_reports', c, t)) = total
                  \/ (total >= 5 /\ LogOf(user_reports', c, t) = <<>>)
               /\ total = 3 => MuteRecord(muted_users', c, t) = now + 2 * 3600
               /\ total = 5 => Attempted(sent', Kick(t))
      ]_vars

\* every report log, of whatever chat and user, holds at most four records
LogsBelowKickThreshold ==
    \A c \in DOMAIN user_reports : \A u \in DOMAIN user_reports[c] :
        Len(user_reports[c][u]) <= 4

\* C37: when the automatic actions are enabled in every state, every report
\* log holds at most four records in every state (every outbound call of the
\* specification succeeds): the report that brings a log to five records has
\* the log cleared before its handler returns.
C37_LogsBelowKickThreshold ==
    []enable_auto_actions_on_reports => []LogsBelowKickThreshold

\* the fifth report against user 3 has been handled with the automatic
\* actions enabled: the kick was issued and user 3 has no report log, while
\* the mute record of the third and fourth report is still there
C37_Witness ==
    /\ update.cmd = "report"
    /\ enable_auto_actions_on_reports
    /\ sent[Len(sent)] = Send(100, "automatically kicked", 5)
    /\ LogOf(user_reports, 100, 3) = <<>>
    /\ MuteRecord(muted_users, 100, 3) = now + 2 * 3600

\* coroutine h is resumed after its confirmation reply and executes line 554
ReadsTotal(h) == tasks[h].pc = "reply" /\ tasks'[h].pc # "reply"

\* the read of line 554 by coroutine h finds the log with the coroutine's own
\* record in it and takes the log's length as the total
TotalIncludesOwnReport(h) ==
    /\ tasks'[h].raises = ""
    /\ tasks[h].own
    /\ tasks'[h].num_reports = Len(ReportLog(100, 3))

\* C38 as stated: also when two report_user coroutines interleave at their
\* awaits, each reads at line 554 a log that is there and holds its own
\* record, and uses its length as the total.
C38_InterleavedReportsSafe ==
    [][ \A h \in Handlers : ReadsTotal(h) => TotalIncludesOwnReport(h) ]_vars

\* C38 amended: a report_user coroutine that no other coroutine has
\* interrupted between its append and line 554, as under the dispatcher
\* that awaits each handler, reads a log that is there and holds its own
\* record, and uses its length as the total; a coroutine resumed after the
\* log was removed ends with KeyError at line 554; and the deletion after
\* the automatic kick leaves the logs alone when the log is already gone.
C38_UninterruptedReportsSafe ==
    [][ \A h \in Handlers :
           /\ (ReadsTotal(h) /\ tasks[h].alone) => TotalIncludesOwnReport(h)
           /\ (ReadsTotal(h) /\ ~HasReportLog(100, 3)) =>
                 /\ tasks'[h].raises = "KeyError"
                 /\ tasks'[h].pc = "done"
                 /\ UNCHANGED <<user_reports, muted_users>>
           /\ ( /\ tasks[h].pc = "announce" /\ tasks'[h].pc = "done"
                /\ ~HasReportLog(100, 3) ) => UNCHANGED user_reports
      ]_vars

\* coroutine 1 ran from its append to its return without interruption, with
\* a total of 5 that counted its own record, and deleted the log after the
\* automatic kick, while coroutine 2 is still suspended at line 551 with its
\* record gone
C38_Witness ==
    /\ tasks[1].pc = "done"
    /\ tasks[1].alone
    /\ tasks[1].num_reports = 5
    /\ tasks[1].raises = ""
    /\ ~HasReportLog(100, 3)
    /\ tasks[2].pc = "reply"
    /\ ~tasks[2].own

\* the decision the claim describes: do_nothing without a found character,
\* else the direction away from the first obstacle in list order that is a
\* threat, a threat being judged as lines 415-427 do with the scan offset
\* of half the character's height (10 for a height of 0)
ClaimedDecision(character_info, obstacles_info) ==
    IF character_info = <<>> \/ ~character_info[1].found
    THEN "do_nothing"
    ELSE ScanObstacles(character_info[1], obstacles_info,
                       ForwardScanOffset_Height(character_info[1]).twice)

\* C39: for every character_info and obstacle list make_decision returns
\* one of move_left, move_right and do_nothing without raising: do_nothing
\* without a found character, else the direction away from the first
\* obstacle in list order that is a threat, else do_nothing.
C39_MakeDecision ==
    frame.decision # "none" =>
        /\ frame.decision \in {"move_left", "move_right", "do_nothing"}
        /\ frame.decision = ClaimedDecision(frame.character_info, frame.obstacles_info)

====
